---- MODULE Spec2Model ----
(***************************************************************************)
(* A model of the SRE runtime Reader/Retriever: the tokenizer, the phrase  *)
(* parser, the fuzzy neighbourhood, the lexical index, the TF-IDF and      *)
(* hybrid rankers with the LRU TF cache, and the retrieval-pack builder.   *)
(*                                                                         *)
(* Texts, queries and tokens are sequences of one-character strings, so    *)
(* that tokenization, phrase normalization and phrase matching work on     *)
(* characters as the code does.  Scores are fixed-point integers at scale  *)
(* ScoreScale (the code computes IEEE doubles); logarithms and square      *)
(* roots are tabulated in thousandths, unit vectors in hundredths.         *)
(***************************************************************************)
EXTENDS Integers, Sequences, FiniteSets, TLC

\* ------------------------------------------------------------------------
\* Characters
\* ------------------------------------------------------------------------

\* [a-z0-9] in UTF-16 code-unit order (digits sort before letters).
AlnumSeq ==
  <<"0","1","2","3","4","5","6","7","8","9",
    "a","b","c","d","e","f","g","h","i","j","k","l","m",
    "n","o","p","q","r","s","t","u","v","w","x","y","z">>

UpperSeq ==
  <<"A","B","C","D","E","F","G","H","I","J","K","L","M",
    "N","O","P","Q","R","S","T","U","V","W","X","Y","Z">>

LowerSeq ==
  <<"a","b","c","d","e","f","g","h","i","j","k","l","m",
    "n","o","p","q","r","s","t","u","v","w","x","y","z">>

AlnumChars == { AlnumSeq[i] : i \in 1..Len(AlnumSeq) }

UpperChars == { UpperSeq[i] : i \in 1..Len(UpperSeq) }

WhitespaceChars == {" ", "\n", "\t"}

Quote == "\""

IsAlnum(c) == c \in AlnumChars

ToLowerChar(c) ==
  IF c \in UpperChars
    THEN LowerSeq[CHOOSE i \in 1..Len(UpperSeq) : UpperSeq[i] = c]
    ELSE c

CharCode(c) == CHOOSE i \in 1..Len(AlnumSeq) : AlnumSeq[i] = c

\* ------------------------------------------------------------------------
\* Generic sequence helpers
\* ------------------------------------------------------------------------

Range(s) == { s[i] : i \in 1..Len(s) }

Min2(a, b) == IF a < b THEN a ELSE b

Max2(a, b) == IF a > b THEN a ELSE b

\* s.slice(0, n)
Take(s, n) == SubSeq(s, 1, Min2(Len(s), n))

RECURSIVE Flatten(_)
Flatten(ss) ==
  IF ss = <<>> THEN <<>> ELSE Head(ss) \o Flatten(Tail(ss))

RECURSIVE SumSeq(_)
SumSeq(s) == IF s = <<>> THEN 0 ELSE Head(s) + SumSeq(Tail(s))

IndexOf(s, x) == CHOOSE i \in 1..Len(s) : s[i] = x

\* Insertion-ordered set (a JS Set or the key order of a JS Map): append x
\* unless it is already there.
AddUnique(s, x) == IF x \in Range(s) THEN s ELSE Append(s, x)

RECURSIVE AddAllUnique(_, _)
AddAllUnique(s, xs) ==
  IF xs = <<>> THEN s ELSE AddAllUnique(AddUnique(s, Head(xs)), Tail(xs))

\* Lexicographic "less than" on sequences of integers (a proper prefix is
\* smaller): the order of every comparator of the code, once the compared
\* fields are written as a key.
RECURSIVE KeyLess(_, _)
KeyLess(a, b) ==
  IF b = <<>> THEN FALSE
  ELSE IF a = <<>> THEN TRUE
  ELSE IF Head(a) # Head(b) THEN Head(a) < Head(b)
  ELSE KeyLess(Tail(a), Tail(b))

\* Array.prototype.sort with a consistent comparator: a stable insertion
\* sort of <<key, value>> pairs by key.
RECURSIVE InsertKeyed(_, _)
InsertKeyed(sorted, x) ==
  IF sorted = <<>> THEN <<x>>
  ELSE IF KeyLess(x[1], Head(sorted)[1]) THEN <<x>> \o sorted
  ELSE <<Head(sorted)>> \o InsertKeyed(Tail(sorted), x)

RECURSIVE SortKeyed(_)
SortKeyed(pairs) ==
  IF pairs = <<>> THEN <<>>
  ELSE InsertKeyed(SortKeyed(SubSeq(pairs, 1, Len(pairs) - 1)),
                   pairs[Len(pairs)])

Values(pairs) == [i \in 1..Len(pairs) |-> pairs[i][2]]

\* ------------------------------------------------------------------------
\* Tokenizer (lexical-index.ts tokenize)
\* ------------------------------------------------------------------------

ToLowerCase(s) == [i \in 1..Len(s) |-> ToLowerChar(s[i])]

\* .replace(/[^a-z0-9]+/g, ' '): every maximal run of non-alphanumerics
\* becomes one space.
ReplaceNonAlnum(s) ==
  LET marked == [i \in 1..Len(s) |->
                   IF IsAlnum(s[i]) THEN s[i]
                   ELSE IF i = 1 \/ IsAlnum(s[i - 1]) THEN " "
                   ELSE ""]
  IN SelectSeq(marked, LAMBDA c : c # "")

\* .split(/\s+/): the pieces between maximal whitespace runs, empty pieces
\* at the ends included.
RECURSIVE SplitWhitespaceFrom(_, _, _, _)
SplitWhitespaceFrom(s, i, cur, acc) ==
  IF i > Len(s) THEN Append(acc, cur)
  ELSE IF s[i] \in WhitespaceChars
    THEN IF i > 1 /\ s[i - 1] \in WhitespaceChars
           THEN SplitWhitespaceFrom(s, i + 1, cur, acc)
           ELSE SplitWhitespaceFrom(s, i + 1, <<>>, Append(acc, cur))
    ELSE SplitWhitespaceFrom(s, i + 1, Append(cur, s[i]), acc)

SplitWhitespace(s) == SplitWhitespaceFrom(s, 1, <<>>, <<>>)

tokenize(text) ==
  SelectSeq(SplitWhitespace(ReplaceNonAlnum(ToLowerCase(text))),
            LAMBDA token : Len(token) > 0)

\* ------------------------------------------------------------------------
\* Phrase parser and matcher (phrase-search: parseQuery, normalizePhrase,
\* findPhraseMatches, containsAllPhrases)
\* ------------------------------------------------------------------------

\* The first index j >= i with q[j] a double quote, 0 when there is none.
FirstQuoteFrom(q, i) ==
  LET js == { j \in i..Len(q) : q[j] = Quote }
  IN IF js = {} THEN 0 ELSE CHOOSE j \in js : \A k \in js : j <= k

\* The matches of /"([^"]+)"/g scanned left to right: each match's group is
\* a phrase, and each match is replaced by one space in the residual.
RECURSIVE ParseQueryFrom(_, _, _, _)
ParseQueryFrom(q, i, phrases, remaining) ==
  IF i > Len(q) THEN [phrases |-> phrases, remaining |-> remaining]
  ELSE LET j == IF q[i] = Quote THEN FirstQuoteFrom(q, i + 1) ELSE 0
       IN IF j > i + 1
            THEN ParseQueryFrom(q, j + 1,
                                Append(phrases, SubSeq(q, i + 1, j - 1)),
                                Append(remaining, " "))
            ELSE ParseQueryFrom(q, i + 1, phrases, Append(remaining, q[i]))

parseQuery(query) ==
  LET scanned == ParseQueryFrom(query, 1, <<>>, <<>>)
  IN [phrases |-> scanned.phrases,
      tokens  |-> SelectSeq(
                    SplitWhitespace(
                      ReplaceNonAlnum(ToLowerCase(scanned.remaining))),
                    LAMBDA token : Len(token) > 0)]

\* .replace(/\s+/g, ' ')
CollapseWhitespace(s) ==
  LET marked == [i \in 1..Len(s) |->
                   IF s[i] \notin WhitespaceChars THEN s[i]
                   ELSE IF i = 1 \/ s[i - 1] \notin WhitespaceChars THEN " "
                   ELSE ""]
  IN SelectSeq(marked, LAMBDA c : c # "")

\* .trim()
Trim(s) ==
  LET keep == { i \in 1..Len(s) : s[i] \notin WhitespaceChars }
  IN IF keep = {} THEN <<>>
     ELSE SubSeq(s, CHOOSE i \in keep : \A k \in keep : i <= k,
                    CHOOSE i \in keep : \A k \in keep : i >= k)

normalizePhrase(phrase) ==
  Trim(CollapseWhitespace(ReplaceNonAlnum(ToLowerCase(phrase))))

\* Whether pat occurs in text at (1-based) position i.
OccursAt(text, pat, i) ==
  /\ i >= 1
  /\ i + Len(pat) - 1 <= Len(text)
  /\ \A k \in 1..Len(pat) : text[i + k - 1] = pat[k]

\* String.prototype.includes
Includes(text, pat) == \E i \in 1..(Len(text) + 1) : OccursAt(text, pat, i)

\* String.prototype.indexOf(pat, from) with 1-based positions; 0 for -1.
IndexOfFrom(text, pat, from) ==
  LET is == { i \in from..(Len(text) + 1) : OccursAt(text, pat, i) }
  IN IF is = {} THEN 0 ELSE CHOOSE i \in is : \A k \in is : i <= k

RECURSIVE PhraseMatchesFrom(_, _, _, _)
PhraseMatchesFrom(normalizedText, normalizedPhrase, searchStart, ranges) ==
  LET index == IndexOfFrom(normalizedText, normalizedPhrase, searchStart)
  IN IF index = 0 THEN ranges
     ELSE PhraseMatchesFrom(
            normalizedText, normalizedPhrase, index + Len(normalizedPhrase),
            Append(ranges, [start |-> index - 1,
                            end   |-> index - 1 + Len(normalizedPhrase)]))

\* Ranges are 0-based offsets into the normalized text, end exclusive.
findPhraseMatches(text, phrase) ==
  LET normalizedText   == normalizePhrase(text)
      normalizedPhrase == normalizePhrase(phrase)
  IN IF Len(normalizedPhrase) = 0 THEN <<>>
     ELSE PhraseMatchesFrom(normalizedText, normalizedPhrase, 1, <<>>)

containsAllPhrases(text, phrases) ==
  LET normalizedText == normalizePhrase(text)
  IN \A k \in 1..Len(phrases) :
       Includes(normalizedText, normalizePhrase(phrases[k]))

\* ------------------------------------------------------------------------
\* Fuzzy neighbourhood (fuzzy-match: generateOneEditNeighborhood,
\* findFuzzyCandidates)
\* ------------------------------------------------------------------------

\* The strings one edit away from token, as a set (the code's array may
\* repeat a string; its only consumer deduplicates).
generateOneEditNeighborhood(token) ==
  LET n == Len(token)
      deletes ==
        { SubSeq(token, 1, i - 1) \o SubSeq(token, i + 1, n) : i \in 1..n }
      substitutes ==
        { SubSeq(token, 1, ic[1] - 1) \o <<ic[2]>> \o SubSeq(token, ic[1] + 1, n) :
            ic \in { p \in (1..n) \X AlnumChars : p[2] # token[p[1]] } }
      inserts ==
        { SubSeq(token, 1, ic[1]) \o <<ic[2]>> \o SubSeq(token, ic[1] + 1, n) :
            ic \in (0..n) \X AlnumChars }
  IN deletes \cup substitutes \cup inserts

\* The key of the default Array.prototype.sort on strings of [a-z0-9].
StringSortKey(token) == [i \in 1..Len(token) |-> CharCode(token[i])]

RECURSIVE SetToSeq(_)
SetToSeq(S) ==
  IF S = {} THEN <<>>
  ELSE LET x == CHOOSE x \in S : TRUE IN <<x>> \o SetToSeq(S \ {x})

findFuzzyCandidates(token, vocabulary, maxCandidates) ==
  LET validCandidates == generateOneEditNeighborhood(token) \cap vocabulary
      keyed == [i \in 1..Cardinality(validCandidates) |->
                  <<StringSortKey(SetToSeq(validCandidates)[i]),
                    SetToSeq(validCandidates)[i]>>]
      sorted == Values(SortKeyed(keyed))
  IN Take(sorted, maxCandidates)

\* ------------------------------------------------------------------------
\* Optional values
\* ------------------------------------------------------------------------

\* undefined, and a defined value x.
Absent == <<>>

Present(x) == <<x>>

IsPresent(o) == o # <<>>

Get(o) == o[1]

\* ------------------------------------------------------------------------
\* Fixed-point arithmetic for scores
\* ------------------------------------------------------------------------

\* One unit of a score, a cosine or a normalized value.
ScoreScale == 100 * 100

\* One unit of a hybrid weight (weights are given in tenths).
WeightScale == 2 * 5

\* Math.log(k) * 1000 for k = 1..10
LnTable == <<0, 693, 1099, 1386, 1609, 1792, 1946, 2079, 2197, 2303>>

\* Math.sqrt(k) * 1000 for k = 1..10
SqrtTable == <<1000, 1414, 1732, 2000, 2236, 2449, 2646, 2828, 3000, 3162>>

\* Math.log(a / b) * 1000
LogRatio(a, b) == LnTable[a] - LnTable[b]

\* ------------------------------------------------------------------------
\* LRU cache of the TF-IDF ranker (rank-tfidf: LRUCache)
\* ------------------------------------------------------------------------

\* A cache is [maxSize, entries]; entries is the Map in insertion order
\* (least recently used first), each entry a [key, value].

LRUKeys(cache) == [i \in 1..Len(cache.entries) |-> cache.entries[i].key]

LRUWithout(cache, key) == SelectSeq(cache.entries, LAMBDA e : e.key # key)

\* A variant that answers with the most recently used entry, whatever its key.
LRULookupAnyKey(cache, key) ==
  IF cache.entries = <<>> THEN Absent
  ELSE Present(cache.entries[Len(cache.entries)].value)

LRULookup(cache, key) ==
  LET hits == SelectSeq(cache.entries, LAMBDA e : e.key = key)
  IN IF hits = <<>> THEN Absent ELSE Present(hits[1].value)

\* A variant that leaves the entry where it is: first in, first out.
LRUGetWithoutTouch(cache, key) ==
  [value |-> LRULookup(cache, key), cache |-> cache]

\* get(key): the value, and the cache with the entry moved to the end.
LRUGet(cache, key) ==
  LET found == LRULookup(cache, key)
  IN [value |-> found,
      cache |-> IF IsPresent(found)
                  THEN [cache EXCEPT !.entries =
                          Append(LRUWithout(cache, key),
                                 [key |-> key, value |-> Get(found)])]
                  ELSE cache]

\* set(key, value): re-inserted at the end; the first key is evicted when
\* the size exceeds maxSize.
LRUSet(cache, key, value) ==
  LET added == Append(LRUWithout(cache, key), [key |-> key, value |-> value])
  IN [cache EXCEPT !.entries =
        IF Len(added) > cache.maxSize THEN Tail(added) ELSE added]

LRUCacheNew(maxSize) == [maxSize |-> maxSize, entries |-> <<>>]

\* ------------------------------------------------------------------------
\* State
\* ------------------------------------------------------------------------

VARIABLES
  spansById,       \* Reader.spansById: span id -> span
  orderedSpans,    \* Reader.orderedSpans: the spans sorted by meta.order
  orderToId,       \* Reader.orderToId: order -> span id
  nodeMap,         \* Reader.nodeMap: Absent or Present(node map)
  searchIndex,     \* Reader.searchIndex: Absent or Present(LexicalIndex)
  tfidfRanker,     \* Reader.tfidfRanker: Absent or Present([tfCache])
  semanticRanker,  \* Reader.semanticRanker: Absent or Present(..)
  hybridRanker,    \* Reader.hybridRanker: Absent or Present(..)
  constructions,   \* per lazy field, how often its constructor has run
  warnings,        \* the span ids of the console.warn calls so far
  recentIds,       \* history: the span ids the TF cache was last used for
  ret              \* the value a call has returned to its caller, if any

vars ==
  <<spansById, orderedSpans, orderToId, nodeMap,
    searchIndex, tfidfRanker, semanticRanker, hybridRanker, constructions,
    warnings, recentIds, ret>>

artifactVars == <<spansById, orderedSpans, orderToId, nodeMap>>

\* The lazily built part of a Reader, as one value.
ReaderState ==
  [searchIndex    |-> searchIndex,
   tfidfRanker    |-> tfidfRanker,
   semanticRanker |-> semanticRanker,
   hybridRanker   |-> hybridRanker,
   constructions  |-> constructions]

LazyFields == {"searchIndex", "tfidfRanker", "semanticRanker", "hybridRanker"}

\* The lazily built part of a Reader right after construction.
FreshReaderState ==
  [searchIndex    |-> Absent,
   tfidfRanker    |-> Absent,
   semanticRanker |-> Absent,
   hybridRanker   |-> Absent,
   constructions  |-> [field \in LazyFields |-> 0]]

\* this.<field> = new ...: the new instance in the field, its constructor
\* counted.
Constructed(rs, field, instance) ==
  [rs EXCEPT ![field] = Present(instance), !.constructions[field] = @ + 1]

\* ------------------------------------------------------------------------
\* Lexical index (lexical-index.ts LexicalIndex)
\* ------------------------------------------------------------------------

SpanTokenSet(span) == Range(tokenize(span.text))

\* new LexicalIndex(spans): token -> the ids of the spans containing it, in
\* the order the spans were visited (a Set keeps insertion order).
LexicalIndexNew(spans) ==
  LET vocabulary == UNION { SpanTokenSet(spans[i]) : i \in 1..Len(spans) }
      holders(token) == SelectSeq(spans, LAMBDA sp : token \in SpanTokenSet(sp))
  IN [index |-> [token \in vocabulary |->
                   AddAllUnique(<<>>, [k \in 1..Len(holders(token)) |->
                                         holders(token)[k].id])],
      spans |-> spans]

\* A variant that answers with every span for a token it does not hold.
PostingsOrAll(li, token) ==
  IF token \in DOMAIN li.index THEN li.index[token]
  ELSE [k \in 1..Len(li.spans) |-> li.spans[k].id]

\* this.index.get(token) || new Set()
Postings(li, token) ==
  IF token \in DOMAIN li.index THEN li.index[token] ELSE <<>>

getDocumentFrequency(li, token) == Len(Postings(li, token))

getTotalDocuments(li) == Len(li.spans)

getVocabulary(li) == DOMAIN li.index

isFuzzyEligible(li, token, fuzzyOptions) ==
  /\ fuzzyOptions.maxEdits = 1
  /\ ~(Len(token) < fuzzyOptions.minTokenLen)
  /\ ~(getDocumentFrequency(li, token) >= fuzzyOptions.dfThreshold)

RECURSIVE UnionPostings(_, _, _)
UnionPostings(li, spanIds, candidates) ==
  IF candidates = <<>> THEN spanIds
  ELSE UnionPostings(li,
                     AddAllUnique(spanIds, Postings(li, Head(candidates))),
                     Tail(candidates))

\* fuzzyOptions is Absent or Present(options).
getPostingsWithFuzzy(li, token, fuzzyOptions) ==
  LET exactPostings == Postings(li, token)
  IN IF /\ IsPresent(fuzzyOptions)
        /\ Get(fuzzyOptions).enabled
        /\ isFuzzyEligible(li, token, Get(fuzzyOptions))
       THEN LET fuzzyCandidates ==
                  findFuzzyCandidates(token, getVocabulary(li),
                                      Get(fuzzyOptions).maxCandidatesPerToken)
            IN [spanIds   |-> UnionPostings(li, exactPostings, fuzzyCandidates),
                usedFuzzy |-> Len(fuzzyCandidates) > 0]
       ELSE [spanIds |-> exactPostings, usedFuzzy |-> FALSE]

\* A variant that keeps the first token's posting and ignores the others.
IntersectPostingsFirstOnly(matchingSpans, rest) == matchingSpans

\* The AND of the token postings: the first posting filtered by the others.
RECURSIVE IntersectPostings(_, _)
IntersectPostings(matchingSpans, rest) ==
  IF rest = <<>> THEN matchingSpans
  ELSE IntersectPostings(
         SelectSeq(matchingSpans, LAMBDA id : id \in Range(Head(rest))),
         Tail(rest))

\* The span of li.spans with the given id (the last one wins in a Map).
SpanOf(li, spanId) ==
  LET is == { i \in 1..Len(li.spans) : li.spans[i].id = spanId }
  IN li.spans[CHOOSE i \in is : \A k \in is : i >= k]

\* The SearchResult of one surviving candidate.
HitOf(span, parsed, tokenFuzzy) ==
  LET spanTokens == SpanTokenSet(span)
      kept == SelectSeq(parsed.tokens,
                LAMBDA term : term \in spanTokens \/ tokenFuzzy[term])
  IN [id    |-> span.id,
      order |-> span.meta.order,
      score |-> 0,
      hits  |-> [tokens  |-> [k \in 1..Len(kept) |->
                                [term  |-> kept[k],
                                 fuzzy |-> tokenFuzzy[kept[k]]
                                           /\ kept[k] \notin spanTokens]],
                 phrases |-> [k \in 1..Len(parsed.phrases) |->
                                [phrase |-> parsed.phrases[k],
                                 ranges |-> findPhraseMatches(
                                              span.text, parsed.phrases[k])]]]]

\* The loop over the candidates: skip a span that lacks a phrase, push the
\* others, and stop once limit (when given) results have been pushed.
RECURSIVE EmitResults(_, _, _, _, _, _)
EmitResults(li, candidateIds, parsed, tokenFuzzy, limit, results) ==
  IF candidateIds = <<>> THEN results
  ELSE LET span == SpanOf(li, Head(candidateIds))
       IN IF /\ Len(parsed.phrases) > 0
             /\ ~containsAllPhrases(span.text, parsed.phrases)
            THEN EmitResults(li, Tail(candidateIds), parsed, tokenFuzzy,
                             limit, results)
            ELSE LET pushed == Append(results, HitOf(span, parsed, tokenFuzzy))
                 IN IF IsPresent(limit) /\ Len(pushed) >= Get(limit)
                      THEN pushed
                      ELSE EmitResults(li, Tail(candidateIds), parsed,
                                       tokenFuzzy, limit, pushed)

\* The candidate ids of a parsed query, in the order the code visits them.
CandidateIds(li, parsed, fuzzyOptions) ==
  IF Len(parsed.tokens) > 0
    THEN LET tokenPostings ==
               [k \in 1..Len(parsed.tokens) |->
                  getPostingsWithFuzzy(li, parsed.tokens[k], fuzzyOptions).spanIds]
         IN IntersectPostings(Head(tokenPostings), Tail(tokenPostings))
    ELSE LET firstWords == tokenize(parsed.phrases[1])
         IN IF firstWords # <<>> THEN Postings(li, firstWords[1]) ELSE <<>>

\* searchWithHits(query, limit, fuzzyOptions).  The method reads
\* fuzzyOptions, the third argument Reader.search passes.
searchWithHits(li, query, limit, fuzzyOptions) ==
  LET parsed == parseQuery(query)
  IN IF Len(parsed.phrases) = 0 /\ Len(parsed.tokens) = 0 THEN <<>>
     ELSE LET tokenFuzzy ==
                [term \in Range(parsed.tokens) |->
                   getPostingsWithFuzzy(li, term, fuzzyOptions).usedFuzzy]
          IN EmitResults(li, CandidateIds(li, parsed, fuzzyOptions), parsed,
                         tokenFuzzy, limit, <<>>)

\* ------------------------------------------------------------------------
\* TF-IDF ranker (rank-tfidf: TFIDFRanker)
\* ------------------------------------------------------------------------

\* A ranker is [tfCache]: Absent, or Present(an LRU cache of TF data).
TFIDFRankerNew == [tfCache |-> Absent]

CountOf(tokens, token) == Len(SelectSeq(tokens, LAMBDA t : t = token))

\* computeTF(span): 1 + log(count) per token, and the token count.
computeTF(span) ==
  LET tokens == tokenize(span.text)
  IN [tfMap     |-> [token \in Range(tokens) |->
                       1000 + LnTable[CountOf(tokens, token)]],
      docLength |-> Len(tokens)]

\* Math.log(totalDocs / (1 + df))
Idf(li, token) ==
  LogRatio(getTotalDocuments(li), 1 + getDocumentFrequency(li, token))

\* Sum over the query tokens of tf * idf, divided by sqrt(docLength).
TfIdfScore(li, tfData, queryTokens) ==
  LET terms == [k \in 1..Len(queryTokens) |->
                  (IF queryTokens[k] \in DOMAIN tfData.tfMap
                     THEN tfData.tfMap[queryTokens[k]] ELSE 0)
                  * Idf(li, queryTokens[k])]
  IN ((SumSeq(terms) \div 100) * 1000) \div SqrtTable[tfData.docLength]

\* Math.min(0.3, phraseCount * phraseBoost), phraseBoost in score units.
PhraseBoostOf(result, phraseBoost) ==
  Min2((3 * ScoreScale) \div 10, Len(result.hits.phrases) * phraseBoost)

\* The TF data of a result's span: from the cache when it is there, else
\* computed and put into the cache when the cache is enabled.
TfDataFor(tfCache, span) ==
  IF ~IsPresent(tfCache)
    THEN [tfData |-> computeTF(span), tfCache |-> tfCache]
    ELSE LET got == LRUGet(Get(tfCache), span.id)
         IN IF IsPresent(got.value)
              THEN [tfData |-> Get(got.value), tfCache |-> Present(got.cache)]
              ELSE [tfData  |-> computeTF(span),
                    tfCache |-> Present(LRUSet(got.cache, span.id,
                                               computeTF(span)))]

\* The loop of rankWithHits: [scored, tfCache] after the results from
\* position i on have been scored.
RECURSIVE RankLoop(_, _, _, _, _, _, _)
RankLoop(li, tfCache, results, i, queryTokens, phraseBoost, scored) ==
  IF i > Len(results) THEN [scored |-> scored, tfCache |-> tfCache]
  ELSE LET result == results[i]
           tf     == TfDataFor(tfCache, SpanOf(li, result.id))
           score  == TfIdfScore(li, tf.tfData, queryTokens)
                       + PhraseBoostOf(result, phraseBoost)
       IN RankLoop(li, tf.tfCache, results, i + 1, queryTokens, phraseBoost,
                   Append(scored, [result EXCEPT !.score = score]))

TfidfRankWithHits(li, ranker, results, queryTokens, phraseBoost) ==
  LET done == RankLoop(li, ranker.tfCache, results, 1, queryTokens,
                       phraseBoost, <<>>)
  IN [scored |-> done.scored, ranker |-> [ranker EXCEPT !.tfCache = done.tfCache]]

\* enableCache(cacheSize)
enableCache(ranker, cacheSize) ==
  [ranker EXCEPT !.tfCache = Present(LRUCacheNew(cacheSize))]

\* ------------------------------------------------------------------------
\* Mini-embedder (core/embed/mini-embedder: embedText, cosineSimilarity)
\* ------------------------------------------------------------------------

EmbedDirections ==
  << <<100, 0>>, <<60, 80>>, <<0, 100>>, <<-60, 80>> >>

\* A deterministic unit vector per token list; the zero vector for none.
embedText(text) ==
  LET tokens == tokenize(text)
      codes  == [k \in 1..Len(tokens) |-> SumSeq(StringSortKey(tokens[k]))]
  IN IF tokens = <<>> THEN <<0, 0>>
     ELSE EmbedDirections[(SumSeq(codes) % Len(EmbedDirections)) + 1]

\* The dot product of two unit vectors, in score units.
cosineSimilarity(u, v) == SumSeq([d \in 1..Len(u) |-> u[d] * v[d]])

\* ------------------------------------------------------------------------
\* Semantic ranker (rank-semantic.ts SemanticRanker)
\* ------------------------------------------------------------------------

\* scoreByCosineSimilarity: span id -> cosine, for the spans that have an
\* embedding; the others are skipped.
\* The console.warn calls of scoreByCosineSimilarity: one for every listed id
\* whose span has no embedding, in the order of the list.
MissingEmbeddingWarnings(li, spanIds) ==
  SelectSeq(spanIds, LAMBDA id : Len(SpanOf(li, id).embedding) = 0)

scoreByCosineSimilarity(li, spanIds, queryEmbedding) ==
  LET scoredIds == { id \in Range(spanIds) : Len(SpanOf(li, id).embedding) > 0 }
  IN [id \in scoredIds |->
        cosineSimilarity(queryEmbedding, SpanOf(li, id).embedding)]

\* ------------------------------------------------------------------------
\* Hybrid ranker (rank-hybrid.ts HybridRanker)
\* ------------------------------------------------------------------------

MinOf(S) == CHOOSE x \in S : \A y \in S : x <= y

MaxOf(S) == CHOOSE x \in S : \A y \in S : x >= y

\* normalizeScores: min-max to [0, 1]; all 1.0 when max = min.
normalizeScores(scores) ==
  IF DOMAIN scores = {} THEN scores
  ELSE LET values == { scores[id] : id \in DOMAIN scores }
           min    == MinOf(values)
           max    == MaxOf(values)
       IN IF max = min THEN [id \in DOMAIN scores |-> ScoreScale]
          ELSE [id \in DOMAIN scores |->
                  ((scores[id] - min) * ScoreScale) \div (max - min)]

\* map.get(id) ?? 0
ScoreOrZero(scores, id) == IF id \in DOMAIN scores THEN scores[id] ELSE 0

\* A variant that tests the signs of the weights only.
WeightsInvalidSignsOnly(options) ==
  \/ options.weightLexical < 0
  \/ options.weightSemantic < 0

\* Whether rankWithHits throws for these weights (given in tenths).
WeightsInvalid(options) ==
  \/ options.weightLexical < 0
  \/ options.weightSemantic < 0
  \/ options.weightLexical + options.weightSemantic > WeightScale

\* new Map(tfidfResults.map((r) => [r.id, r.score])): the last one wins.
ScoreMapOf(scored) ==
  [id \in { scored[k].id : k \in 1..Len(scored) } |->
     scored[CHOOSE k \in 1..Len(scored) :
              /\ scored[k].id = id
              /\ \A j \in 1..Len(scored) : scored[j].id = id => j <= k].score]

\* options.normalize ? normalizeScores(scores) : scores
MaybeNormalized(scores, options) ==
  IF options.normalize THEN normalizeScores(scores) ELSE scores

\* The weighted sum of the two score maps, per result (weights in tenths).
FuseScores(results, tfidfNormalized, semanticNormalized, options) ==
  [k \in 1..Len(results) |->
     [results[k] EXCEPT !.score =
        ScoreOrZero(tfidfNormalized, results[k].id) * options.weightLexical
        + ScoreOrZero(semanticNormalized, results[k].id)
          * options.weightSemantic]]

\* The fusion once the TF-IDF ranker has scored the results.
FuseRanked(results, lexical, semanticScores, options, warned) ==
  [error  |-> Absent,
   warned |-> warned,
   scored |-> FuseScores(results,
                         MaybeNormalized(ScoreMapOf(lexical.scored), options),
                         MaybeNormalized(semanticScores, options),
                         options),
   ranker |-> lexical.ranker]

\* rankWithHits(results, queryTokens, queryEmbedding, options): an error,
\* or the results with their fused scores, the TF-IDF ranker after use and
\* the warnings the semantic ranker wrote.
HybridRankWithHits(li, ranker, results, queryTokens, queryEmbedding, options) ==
  IF WeightsInvalid(options)
    THEN [error |-> Present("InvalidArgument"), warned |-> <<>>,
          scored |-> <<>>, ranker |-> ranker]
  ELSE IF Len(results) = 0
    THEN [error |-> Absent, warned |-> <<>>, scored |-> <<>>, ranker |-> ranker]
  ELSE FuseRanked(
         results,
         TfidfRankWithHits(li, ranker, results, queryTokens, ScoreScale \div 10),
         scoreByCosineSimilarity(
           li, [k \in 1..Len(results) |-> results[k].id], queryEmbedding),
         options,
         MissingEmbeddingWarnings(li, [k \in 1..Len(results) |-> results[k].id]))

\* ------------------------------------------------------------------------
\* Reader: construction (Reader.constructor)
\* ------------------------------------------------------------------------

\* The largest element of a non-empty set of positions.
LastOf(positions) == CHOOSE i \in positions : \A k \in positions : k <= i

\* A Map filled by set(span.id, span) over the spans: the last one wins.
SpansByIdOf(spans) ==
  [id \in { spans[i].id : i \in 1..Len(spans) } |->
     spans[LastOf({ i \in 1..Len(spans) : spans[i].id = id })]]

\* [...spans].sort((a, b) => a.meta.order - b.meta.order)
OrderedSpansOf(spans) ==
  Values(SortKeyed([i \in 1..Len(spans) |->
                      <<<<spans[i].meta.order>>, spans[i]>>]))

OrderToIdOf(ordered) ==
  [o \in { ordered[i].meta.order : i \in 1..Len(ordered) } |->
     ordered[LastOf({ i \in 1..Len(ordered) : ordered[i].meta.order = o })].id]

\* ------------------------------------------------------------------------
\* Reader.search
\* ------------------------------------------------------------------------

IsRanked(options) == options.rank = "tfidf" \/ options.rank = "hybrid"

\* A variant comparator: score ascending.
RankedSortKeyAscending(result) == <<result.score, result.order>>

\* The comparator of the ranked sort: score descending, then order ascending.
RankedSortKey(result) == <<0 - result.score, result.order>>

\* The comparator of the unranked sort: order ascending.
OrderSortKey(result) == <<result.order>>

SortResultsRanked(results) ==
  Values(SortKeyed([k \in 1..Len(results) |->
                      <<RankedSortKey(results[k]), results[k]>>]))

SortResultsByOrder(results) ==
  Values(SortKeyed([k \in 1..Len(results) |->
                      <<OrderSortKey(results[k]), results[k]>>]))

\* results.slice(0, options.limit) when a limit is given
ApplyLimit(results, limit) ==
  IF IsPresent(limit) THEN Take(results, Get(limit)) ELSE results

\* A variant that constructs a lexical index on every call.
EnsureSearchIndexAlways(rs) ==
  Constructed(rs, "searchIndex", LexicalIndexNew(orderedSpans))

\* if (!this.searchIndex) this.searchIndex = new LexicalIndex(...)
EnsureSearchIndex(rs) ==
  IF IsPresent(rs.searchIndex) THEN rs
  ELSE Constructed(rs, "searchIndex", LexicalIndexNew(orderedSpans))

\* if (!this.tfidfRanker) this.tfidfRanker = new TFIDFRanker(...)
EnsureTfidfRanker(rs) ==
  IF IsPresent(rs.tfidfRanker) THEN rs
  ELSE Constructed(rs, "tfidfRanker", TFIDFRankerNew)

\* The lazy construction at the top of search.
LazyBuild(rs, options) ==
  LET withIndex == EnsureSearchIndex(rs)
      withTfidf ==
        IF IsRanked(options) THEN EnsureTfidfRanker(withIndex) ELSE withIndex
      withSemantic ==
        IF options.rank = "hybrid" /\ ~IsPresent(withTfidf.semanticRanker)
          THEN Constructed(withTfidf, "semanticRanker", "SemanticRanker")
          ELSE withTfidf
  IN IF /\ options.rank = "hybrid"
        /\ ~IsPresent(withSemantic.hybridRanker)
        /\ IsPresent(withSemantic.tfidfRanker)
       THEN Constructed(withSemantic, "hybridRanker", "HybridRanker")
       ELSE withSemantic

\* A variant that truncates the candidates before they are ranked.
LimitAtSearchAlways(options) == options.limit

\* The limit search hands to searchWithHits.
LimitAtSearch(options) == IF IsRanked(options) THEN Absent ELSE options.limit

\* What search returns once a ranker has scored the results: the sorted,
\* truncated list, or the error the ranker threw; and the span ids whose TF
\* data the TF-IDF ranker asked for, in the order it did.
RankedOutcome(built, ranked, options) ==
  [rs      |-> [built EXCEPT !.tfidfRanker = Present(ranked.ranker)],
   error   |-> ranked.error,
   warned  |-> ranked.warned,
   used    |-> [k \in 1..Len(ranked.scored) |-> ranked.scored[k].id],
   results |-> IF IsPresent(ranked.error) THEN <<>>
               ELSE ApplyLimit(SortResultsRanked(ranked.scored), options.limit)]

\* The TF-IDF ranker's answer in the shape of the hybrid ranker's.
WithoutError(ranked) ==
  [error |-> Absent, warned |-> <<>>, scored |-> ranked.scored,
   ranker |-> ranked.ranker]

\* The ranking branch of search, given the matching results.
RankAndSort(built, li, results, query, options) ==
  IF options.rank = "tfidf" /\ IsPresent(built.tfidfRanker)
    THEN RankedOutcome(
           built,
           WithoutError(TfidfRankWithHits(li, Get(built.tfidfRanker), results,
                                          tokenize(query), ScoreScale \div 10)),
           options)
  ELSE IF /\ options.rank = "hybrid"
          /\ IsPresent(built.hybridRanker)
          /\ IsPresent(built.semanticRanker)
    THEN RankedOutcome(
           built,
           HybridRankWithHits(li, Get(built.tfidfRanker), results,
                              tokenize(query), embedText(query), options.hybrid),
           options)
  ELSE [rs      |-> built,
        error   |-> Absent,
        warned  |-> <<>>,
        used    |-> <<>>,
        results |-> SortResultsByOrder(results)]

\* search after the lazy construction.
SearchBuilt(built, query, options) ==
  RankAndSort(built, Get(built.searchIndex),
              searchWithHits(Get(built.searchIndex), query,
                             LimitAtSearch(options), options.fuzzy),
              query, options)

\* search(query, options) on a Reader whose lazy part is rs: the lazy part
\* after the call, what the call returns or throws, and what it wrote to the
\* console.
ReaderSearch(rs, query, options) ==
  SearchBuilt(LazyBuild(rs, options), query, options)

\* ------------------------------------------------------------------------
\* Reader.enableTfCache
\* ------------------------------------------------------------------------

ReaderEnableTfCache(rs, cacheSize) ==
  LET withTfidf == EnsureTfidfRanker(EnsureSearchIndex(rs))
  IN [withTfidf EXCEPT
        !.tfidfRanker = Present(enableCache(Get(withTfidf.tfidfRanker), cacheSize))]

\* ------------------------------------------------------------------------
\* Reader.neighbors
\* ------------------------------------------------------------------------

\* The ids orderToId gives for the orders lo..hi, ascending; an order with
\* no id is skipped.
IdsInRange(lo, hi) ==
  LET present == { o \in lo..hi : o \in DOMAIN orderToId }
      orders  == Values(SortKeyed([k \in 1..Cardinality(present) |->
                   <<<<SetToSeq(present)[k]>>, SetToSeq(present)[k]>>]))
  IN [k \in 1..Len(orders) |-> orderToId[orders[k]]]

\* A variant that leaves the target out of its neighbourhood.
ReaderNeighborsWithoutTarget(id, before, after) ==
  IF id \notin DOMAIN spansById THEN <<>>
  ELSE LET targetOrder == spansById[id].meta.order
           maxOrder    == Len(orderedSpans) - 1
       IN IdsInRange(Max2(0, targetOrder - before), targetOrder - 1)
            \o IdsInRange(targetOrder + 1, Min2(maxOrder, targetOrder + after))

ReaderNeighbors(id, before, after) ==
  IF id \notin DOMAIN spansById THEN <<>>
  ELSE LET targetOrder == spansById[id].meta.order
           maxOrder    == Len(orderedSpans) - 1
       IN IdsInRange(Max2(0, targetOrder - before), targetOrder - 1)
            \o <<id>>
            \o IdsInRange(targetOrder + 1, Min2(maxOrder, targetOrder + after))

\* ------------------------------------------------------------------------
\* Retrieval packs: expansion (retrieval/expand: expandToNeighbors,
\* expandToSection, parseHeadingPath, createPack)
\* ------------------------------------------------------------------------

\* The pack id `o:<start>-<end>`.
NeighborsPackId(start, end) == <<"o", start, end>>

\* The pack id `s:<sectionId>`.
SectionPackId(sectionId) == <<"s", sectionId>>

expandToNeighbors(entry, perHitNeighbors, maxOrder) ==
  LET start == Max2(0, entry.order - perHitNeighbors)
      end   == Min2(maxOrder, entry.order + perHitNeighbors)
  IN [packId       |-> NeighborsPackId(start, end),
      entry        |-> entry,
      scope        |-> [type |-> "neighbors",
                        range |-> [start |-> start, end |-> end]],
      paragraphIds |-> IdsInRange(start, end),
      headingPath  |-> entry.headingPath]

RECURSIVE DropLeading(_, _)
DropLeading(s, chars) ==
  IF s # <<>> /\ s[1] \in chars THEN DropLeading(Tail(s), chars) ELSE s

\* heading.replace(/^#+\s*/, '')
StripHeadingMarks(heading) ==
  IF heading # <<>> /\ heading[1] = "#"
    THEN DropLeading(DropLeading(heading, {"#"}), WhitespaceChars)
    ELSE heading

parseHeadingPath(heading) ==
  IF Trim(heading) = <<>> THEN <<>>
  ELSE LET text == Trim(StripHeadingMarks(heading))
       IN IF text = <<>> THEN <<>> ELSE <<text>>

\* Absent when the span has no section in the node map or the section is
\* not in sections.
expandToSection(entry, nm, paragraphsIndex) ==
  IF entry.spanId \notin DOMAIN paragraphsIndex THEN Absent
  ELSE LET sectionId == paragraphsIndex[entry.spanId]
       IN IF sectionId \notin DOMAIN nm.sections THEN Absent
          ELSE Present(
                 [packId       |-> SectionPackId(sectionId),
                  entry        |-> entry,
                  scope        |-> [type |-> "section", sectionId |-> sectionId],
                  paragraphIds |-> nm.sections[sectionId].paragraphIds,
                  headingPath  |->
                    parseHeadingPath(nm.sections[sectionId].meta.heading)])

\* Reader.buildParagraphToSectionIndex
buildParagraphToSectionIndex ==
  IF IsPresent(nodeMap)
    THEN [id \in DOMAIN Get(nodeMap).paragraphs |->
            Get(nodeMap).paragraphs[id].sectionId]
    ELSE <<>>

\* A variant that never tries the section.
expandHitNeighborsOnly(entry, expandMode, perHitNeighbors, paragraphsIndex) ==
  expandToNeighbors(entry, perHitNeighbors, Len(orderedSpans) - 1)

\* Reader.expandHit
expandHit(entry, expandMode, perHitNeighbors, paragraphsIndex) ==
  LET maxOrder == Len(orderedSpans) - 1
      sectionContext ==
        IF expandMode = "section" /\ IsPresent(nodeMap)
          THEN expandToSection(entry, Get(nodeMap), paragraphsIndex)
          ELSE Absent
  IN IF IsPresent(sectionContext) THEN Get(sectionContext)
     ELSE expandToNeighbors(entry, perHitNeighbors, maxOrder)

\* texts.join('\n\n')
RECURSIVE JoinTexts(_)
JoinTexts(texts) ==
  IF texts = <<>> THEN <<>>
  ELSE IF Len(texts) = 1 THEN texts[1]
  ELSE texts[1] \o <<"\n", "\n">> \o JoinTexts(Tail(texts))

createPack(context) ==
  LET found == SelectSeq(context.paragraphIds,
                         LAMBDA id : id \in DOMAIN spansById)
      text  == JoinTexts([k \in 1..Len(found) |-> spansById[found[k]].text])
  IN [packId       |-> context.packId,
      entry        |-> context.entry,
      scope        |-> context.scope,
      paragraphIds |-> context.paragraphIds,
      text         |-> text,
      meta         |-> [headingPath |-> context.headingPath,
                        spanCount   |-> Len(found),
                        charCount   |-> Len(text)]]

\* ------------------------------------------------------------------------
\* Retrieval packs: merge (retrieval/dedupe: dedupeAndMerge,
\* unionParagraphIds)
\* ------------------------------------------------------------------------

\* id.match(/span:(\d+)/) and parseInt: the number of a `span:<digits>` id,
\* 0 for an id of another shape.  An id is <<prefix, number>>.
SpanIdNumber(id) == IF id[1] = "span" THEN id[2] ELSE 0

unionParagraphIds(arrays) ==
  LET allIds == AddAllUnique(<<>>, Flatten(arrays))
  IN Values(SortKeyed([k \in 1..Len(allIds) |->
                         <<<<SpanIdNumber(allIds[k])>>, allIds[k]>>]))

\* A variant that ends with the last context of the group.
RECURSIVE BestContextLast(_, _)
BestContextLast(best, rest) ==
  IF rest = <<>> THEN best ELSE BestContextLast(Head(rest), Tail(rest))

\* The best entry of a group: the scan keeps the first context and replaces
\* it by a later one of higher score, or of equal score and lower order.
RECURSIVE BestContext(_, _)
BestContext(best, rest) ==
  IF rest = <<>> THEN best
  ELSE LET ctx == Head(rest)
       IN IF \/ ctx.entry.score > best.entry.score
             \/ /\ ctx.entry.score = best.entry.score
                /\ ctx.entry.order < best.entry.order
            THEN BestContext(ctx, Tail(rest))
            ELSE BestContext(best, Tail(rest))

\* A variant that opens a group per context, merging nothing.
GroupKeysPerContext(contexts) ==
  [k \in 1..Len(contexts) |-> contexts[k].packId]

\* The keys of the grouping Map, in insertion order.
GroupKeys(contexts) ==
  AddAllUnique(<<>>, [k \in 1..Len(contexts) |-> contexts[k].packId])

MergeGroup(packId, group) ==
  LET bestContext == BestContext(group[1], group)
  IN [packId       |-> packId,
      entry        |-> bestContext.entry,
      scope        |-> bestContext.scope,
      paragraphIds |-> unionParagraphIds(
                         [k \in 1..Len(group) |-> group[k].paragraphIds]),
      headingPath  |-> bestContext.headingPath]

dedupeAndMerge(contexts) ==
  LET keys == GroupKeys(contexts)
  IN [g \in 1..Len(keys) |->
        MergeGroup(keys[g],
                   SelectSeq(contexts, LAMBDA ctx : ctx.packId = keys[g]))]

\* ------------------------------------------------------------------------
\* Retrieval packs: budget (retrieval/budget.ts applyBudget)
\* ------------------------------------------------------------------------

\* A variant that tests the running total before the pack is added to it.
RECURSIVE BudgetLoopLateTest(_, _, _, _, _)
BudgetLoopLateTest(packs, limit, maxTokens, result, totalChars) ==
  IF packs = <<>> THEN result
  ELSE IF IsPresent(limit) /\ Len(result) >= Get(limit) THEN result
  ELSE IF IsPresent(maxTokens) /\ totalChars > Get(maxTokens) THEN result
  ELSE BudgetLoopLateTest(Tail(packs), limit, maxTokens,
                          Append(result, Head(packs)),
                          totalChars + Head(packs).meta.charCount)

\* A variant that skips a pack that does not fit and goes on to the next.
RECURSIVE BudgetLoopSkipping(_, _, _, _, _)
BudgetLoopSkipping(packs, limit, maxTokens, result, totalChars) ==
  IF packs = <<>> THEN result
  ELSE IF IsPresent(limit) /\ Len(result) >= Get(limit) THEN result
  ELSE IF /\ IsPresent(maxTokens)
          /\ totalChars + Head(packs).meta.charCount > Get(maxTokens)
    THEN BudgetLoopSkipping(Tail(packs), limit, maxTokens, result, totalChars)
  ELSE BudgetLoopSkipping(Tail(packs), limit, maxTokens,
                          Append(result, Head(packs)),
                          totalChars + Head(packs).meta.charCount)

RECURSIVE BudgetLoop(_, _, _, _, _)
BudgetLoop(packs, limit, maxTokens, result, totalChars) ==
  IF packs = <<>> THEN result
  ELSE IF IsPresent(limit) /\ Len(result) >= Get(limit) THEN result
  ELSE IF /\ IsPresent(maxTokens)
          /\ totalChars + Head(packs).meta.charCount > Get(maxTokens)
    THEN result
  ELSE BudgetLoop(Tail(packs), limit, maxTokens, Append(result, Head(packs)),
                  totalChars + Head(packs).meta.charCount)

applyBudget(packs, limit, maxTokens) ==
  BudgetLoop(packs, limit, maxTokens, <<>>, 0)

\* ------------------------------------------------------------------------
\* Reader.retrieve
\* ------------------------------------------------------------------------

\* A variant comparator: entry.order ascending alone.
PackSortKeyOrderOnly(pack) == <<pack.entry.order>>

\* Packs sort by entry.score descending, then entry.order ascending.
PackSortKey(pack) == <<0 - pack.entry.score, pack.entry.order>>

SortPacks(packs) ==
  Values(SortKeyed([k \in 1..Len(packs) |-> <<PackSortKey(packs[k]), packs[k]>>]))

\* hybrid is undefined in the search retrieve makes: the defaults apply.
DefaultHybridOptions ==
  [weightLexical |-> 7, weightSemantic |-> 3, normalize |-> TRUE]

\* The options of the search retrieve makes: { rank, limit: limit * 4 }.
RetrieveSearchOptions(options) ==
  [limit  |-> Present(options.limit * 4),
   rank   |-> options.rank,
   fuzzy  |-> Absent,
   hybrid |-> DefaultHybridOptions]

EntryOf(result) ==
  [spanId      |-> result.id,
   order       |-> spansById[result.id].meta.order,
   score       |-> result.score,
   headingPath |-> spansById[result.id].meta.headingPath,
   hits        |-> result.hits]

\* The expanded context of every hit, in hit order.
ExpandAll(searchResults, options, paragraphsIndex) ==
  [k \in 1..Len(searchResults) |->
     expandHit(EntryOf(searchResults[k]), options.expand,
               options.perHitNeighbors, paragraphsIndex)]

\* A pack per merged context.
PacksOf(mergedContexts) ==
  [k \in 1..Len(mergedContexts) |-> createPack(mergedContexts[k])]

\* The sorted merged packs of a hit list, before the budget is applied.
MergedPacks(searchResults, options) ==
  SortPacks(PacksOf(dedupeAndMerge(
    ExpandAll(searchResults, options, buildParagraphToSectionIndex))))

\* searchWithScores: the results whose span the Reader holds.
KnownResults(results) ==
  SelectSeq(results, LAMBDA r : r.id \in DOMAIN spansById)

\* retrieve after its search.
RetrieveSearched(searched, searchResults, options) ==
  [rs     |-> searched.rs,
   warned |-> searched.warned,
   used   |-> searched.used,
   packs  |-> IF Len(searchResults) = 0 THEN <<>>
             ELSE applyBudget(MergedPacks(searchResults, options),
                              Present(options.limit), options.maxTokens)]

RetrieveFrom(searched, options) ==
  RetrieveSearched(searched, KnownResults(searched.results), options)

\* retrieve(query, options) on a Reader whose lazy part is rs.
ReaderRetrieve(rs, query, options) ==
  RetrieveFrom(ReaderSearch(rs, query, RetrieveSearchOptions(options)), options)

\* ------------------------------------------------------------------------
\* Prompt assembly (rag/assemble-prompt: assemblePrompt)
\* ------------------------------------------------------------------------

\* The superscript digits, each one character, written ^0 .. ^9 here.
SUPERSCRIPT_DIGITS ==
  <<"^0", "^1", "^2", "^3", "^4", "^5", "^6", "^7", "^8", "^9">>

\* num.toString().split(''): the decimal digits of a number.
RECURSIVE DecimalDigits(_)
DecimalDigits(num) ==
  IF num < 10 THEN <<num>>
  ELSE Append(DecimalDigits(num \div 10), num % 10)

toSuperscriptMarker(num) ==
  <<"[">>
  \o [k \in 1..Len(DecimalDigits(num)) |->
        SUPERSCRIPT_DIGITS[DecimalDigits(num)[k] + 1]]
  \o <<"]">>

\* The system prompt is a string of the code; only its length is read.
getSystemPrompt(style) ==
  IF style = "qa"
    THEN "You are a helpful assistant that answers questions based on provided context. Only provide information that is directly supported by the context. Cite your sources using the numbered markers provided (e.g., [¹], [²]). If the context does not contain sufficient information to answer the question, say so clearly rather than making assumptions."
    ELSE "You are a helpful assistant that summarizes information from provided context. Create a concise, accurate summary based only on the information in the context. Cite your sources using the numbered markers provided (e.g., [¹], [²]). Do not add information that is not present in the context."

\* parts.join(separator), for texts as sequences of characters.
RECURSIVE JoinWith(_, _)
JoinWith(parts, separator) ==
  IF parts = <<>> THEN <<>>
  ELSE IF Len(parts) = 1 THEN parts[1]
  ELSE parts[1] \o separator \o JoinWith(Tail(parts), separator)

formatContextBlock(pack, marker, docId) ==
  JoinWith(
    <<marker, <<"D","o","c",":"," ">> \o docId>>
    \o (IF Len(pack.meta.headingPath) > 0
          THEN << <<"P","a","t","h",":"," ">>
                  \o JoinWith(pack.meta.headingPath, <<" ",">"," ">>) >>
          ELSE <<>>)
    \o << <<"-","-","-">>, pack.text >>,
    <<"\n">>)

\* The [start, end] of every range of every phrase hit; absent when none.
extractSpanOffsets(pack) ==
  LET phrases == pack.entry.hits.phrases
      offsets == Flatten([k \in 1..Len(phrases) |->
                   [r \in 1..Len(phrases[k].ranges) |->
                      <<phrases[k].ranges[r].start, phrases[k].ranges[r].end>>]])
  IN IF Len(offsets) > 0 THEN Present(offsets) ELSE Absent

estimateTokens(text) == Len(text)

DefaultHeadroomTokens == 300

\* headroomTokens is either a number n, [fromMax |-> FALSE, n |-> n], or
\* Number.MAX_SAFE_INTEGER - n, [fromMax |-> TRUE, n |-> n]; so is
\* budgetLimit = Number.MAX_SAFE_INTEGER - headroomTokens.
BudgetLimitOf(headroomTokens) ==
  IF IsPresent(headroomTokens)
    THEN [fromMax |-> ~Get(headroomTokens).fromMax, n |-> Get(headroomTokens).n]
    ELSE [fromMax |-> TRUE, n |-> DefaultHeadroomTokens]

\* projectedTotal > budgetLimit; a projected total of the sizes the texts
\* here have is far below Number.MAX_SAFE_INTEGER - n.
ExceedsBudget(projectedTotal, budgetLimit) ==
  IF budgetLimit.fromMax THEN FALSE ELSE projectedTotal > budgetLimit.n

CitationOf(pack, marker, docId) ==
  [marker      |-> marker,
   packId      |-> pack.packId,
   docId       |-> docId,
   headingPath |-> pack.meta.headingPath,
   spanOffsets |-> extractSpanOffsets(pack)]

\* A loop that passes over a block that does not fit and goes on.
RECURSIVE PromptLoopSkipping(_, _, _, _, _, _, _)
PromptLoopSkipping(packs, i, docId, baseSize, budgetLimit, acc, totalChars) ==
  IF i > Len(packs) THEN acc
  ELSE IF ExceedsBudget(
            baseSize + totalChars
              + estimateTokens(formatContextBlock(
                                 packs[i], toSuperscriptMarker(i), docId)),
            budgetLimit)
    THEN PromptLoopSkipping(packs, i + 1, docId, baseSize, budgetLimit, acc,
                            totalChars)
  ELSE PromptLoopSkipping(
         packs, i + 1, docId, baseSize, budgetLimit,
         [citations     |-> Append(acc.citations,
                              CitationOf(packs[i], toSuperscriptMarker(i), docId)),
          contextBlocks |-> Append(acc.contextBlocks,
                              formatContextBlock(
                                packs[i], toSuperscriptMarker(i), docId))],
         totalChars
           + estimateTokens(formatContextBlock(
                              packs[i], toSuperscriptMarker(i), docId)))

\* The loop over the packs: the i-th pack (from 1) gets the marker of i; the
\* loop breaks at the first block that does not fit.
RECURSIVE PromptLoop(_, _, _, _, _, _, _)
PromptLoop(packs, i, docId, baseSize, budgetLimit, acc, totalChars) ==
  IF i > Len(packs) THEN acc
  ELSE IF ExceedsBudget(
            baseSize + totalChars
              + estimateTokens(formatContextBlock(
                                 packs[i], toSuperscriptMarker(i), docId)),
            budgetLimit)
    THEN acc
  ELSE PromptLoop(
         packs, i + 1, docId, baseSize, budgetLimit,
         [citations     |-> Append(acc.citations,
                              CitationOf(packs[i], toSuperscriptMarker(i), docId)),
          contextBlocks |-> Append(acc.contextBlocks,
                              formatContextBlock(
                                packs[i], toSuperscriptMarker(i), docId))],
         totalChars
           + estimateTokens(formatContextBlock(
                              packs[i], toSuperscriptMarker(i), docId)))

BaseUserPromptSuffix == "\n\nYou may reference the following context:"

\* The markers are joined by the one character of an ellipsis, written ...
\* here.
UserPromptOf(question, acc) ==
  IF Len(acc.contextBlocks) > 0
    THEN question
         \o <<"\n","\n","Y","o","u"," ","m","a","y"," ",
              "r","e","f","e","r","e","n","c","e"," ">>
         \o JoinWith([k \in 1..Len(acc.citations) |-> acc.citations[k].marker],
                     <<"...">>)
         \o <<".","\n","\n">>
         \o JoinWith(acc.contextBlocks, <<"\n","\n">>)
    ELSE question

AssembledOf(style, question, acc) ==
  [prompt          |-> [system |-> getSystemPrompt(style),
                        user   |-> UserPromptOf(question, acc)],
   citations       |-> acc.citations,
   tokensEstimated |-> estimateTokens(getSystemPrompt(style))
                         + estimateTokens(UserPromptOf(question, acc))]

\* assemblePrompt({ question, packs, docId, headroomTokens, style })
assemblePrompt(question, packs, docId, headroomTokens, style) ==
  IF Len(packs) = 0
    THEN [prompt          |-> [system |-> getSystemPrompt(style),
                               user   |-> question],
          citations       |-> <<>>,
          tokensEstimated |-> estimateTokens(getSystemPrompt(style))
                                + estimateTokens(question)]
    ELSE AssembledOf(
           style, question,
           PromptLoop(packs, 1, docId,
                      estimateTokens(getSystemPrompt(style))
                        + estimateTokens(question)
                        + estimateTokens(BaseUserPromptSuffix),
                      BudgetLimitOf(headroomTokens),
                      [citations |-> <<>>, contextBlocks |-> <<>>], 0))

\* The id of the manifest the Reader was constructed with.
ManifestId == <<"d">>

\* reader.assemblePrompt(options): the Reader's manifest id is the docId.
ReaderAssemblePrompt(question, packs, headroomTokens, style) ==
  assemblePrompt(question, packs, ManifestId, headroomTokens, style)

\* ------------------------------------------------------------------------
\* Artifacts the Reader is constructed from
\* ------------------------------------------------------------------------

\* The id `span:<n>` (the build pipeline's ids) and an id of another shape.
SpanId(n) == <<"span", n>>

OtherId(n) == <<"p", n>>

Span(id, text, order, headingPath, embedding) ==
  [id        |-> id,
   text      |-> text,
   meta      |-> [order |-> order, headingPath |-> headingPath],
   embedding |-> embedding]

\* detectHeading(text): the level of a Markdown heading, one to three hash
\* characters followed by white space and some text; 0 when it is none.
LeadingHashes(text) ==
  LET stops == { i \in 1..Len(text) : text[i] # "#" }
  IN IF stops = {} THEN Len(text)
     ELSE (CHOOSE i \in stops : \A j \in stops : i <= j) - 1

detectHeading(text) ==
  LET n == LeadingHashes(text)
  IN IF /\ n \in 1..3
        /\ Len(text) >= n + 2
        /\ text[n + 1] \in WhitespaceChars
       THEN [isHeading |-> TRUE, level |-> n]
       ELSE [isHeading |-> FALSE, level |-> 0]

generateSectionId(order) ==
  <<"sec:000001", "sec:000002", "sec:000003", "sec:000004", "sec:000005",
    "sec:000006">>[order + 1]

generateChapterId(order) ==
  <<"chap:000001", "chap:000002", "chap:000003", "chap:000004",
    "chap:000005", "chap:000006">>[order + 1]

\* A record as a JavaScript object: the key set to the value.
Put(f, key, value) ==
  [k \in DOMAIN f \cup {key} |-> IF k = key THEN value ELSE f[k]]

NoEntries == [k \in {} |-> <<>>]

\* One step of the loop of generateNodeMap over the spans of a document with
\* headings: st holds the maps and the current chapter and section.
NodeMapOpenChapter(st) ==
  [st EXCEPT !.chapterOrder = @ + 1,
             !.currentChapterId = Present(generateChapterId(st.chapterOrder + 1)),
             !.chapters = Put(@, generateChapterId(st.chapterOrder + 1),
                              [sectionIds |-> <<>>])]

NodeMapEnsureChapter(st) ==
  IF IsPresent(st.currentChapterId) THEN st ELSE NodeMapOpenChapter(st)

NodeMapOpenSection(st, heading) ==
  [st EXCEPT !.sectionOrder = @ + 1,
             !.currentSectionId = Present(generateSectionId(st.sectionOrder + 1)),
             !.sections = Put(@, generateSectionId(st.sectionOrder + 1),
                              [paragraphIds |-> <<>>,
                               meta |-> [heading |-> heading]])]

NodeMapAttachSection(st) ==
  [st EXCEPT !.chapters[Get(st.currentChapterId)].sectionIds =
               Append(@, Get(st.currentSectionId))]

NodeMapAfterH1(st, heading) ==
  IF heading.isHeading /\ heading.level = 1
    THEN [NodeMapOpenChapter(st) EXCEPT !.currentSectionId = Absent]
    ELSE st

NodeMapAfterH2(st, heading, span) ==
  IF heading.isHeading /\ heading.level = 2
    THEN NodeMapAttachSection(
           NodeMapEnsureChapter(NodeMapOpenSection(st, span.text)))
    ELSE st

NodeMapAfterSynthetic(st) ==
  IF IsPresent(st.currentSectionId) THEN st
  ELSE NodeMapAttachSection(NodeMapEnsureChapter(NodeMapOpenSection(st, <<>>)))

\* A variant that keeps the chapter headings out of the sections.
NodeMapAddSpanBelowChapters(st, span) ==
  IF detectHeading(span.text).level = 1 THEN st
  ELSE [st EXCEPT !.sections[Get(st.currentSectionId)].paragraphIds =
                    Append(@, span.id),
                  !.paragraphs = Put(@, span.id,
                                     [sectionId |-> Get(st.currentSectionId)])]

\* sections[currentSectionId].paragraphIds.push(span.id) and the span's
\* entry in paragraphs.
NodeMapAddSpan(st, span) ==
  [st EXCEPT !.sections[Get(st.currentSectionId)].paragraphIds =
               Append(@, span.id),
             !.paragraphs = Put(@, span.id,
                                [sectionId |-> Get(st.currentSectionId)])]

NodeMapStep(st, span) ==
  NodeMapAddSpan(
    NodeMapAfterSynthetic(
      NodeMapAfterH2(NodeMapAfterH1(st, detectHeading(span.text)),
                     detectHeading(span.text), span)),
    span)

RECURSIVE NodeMapLoop(_, _, _)
NodeMapLoop(spans, i, st) ==
  IF i > Len(spans) THEN st
  ELSE NodeMapLoop(spans, i + 1, NodeMapStep(st, spans[i]))

\* generateNodeMap(spans, manifest), for a manifest of the given title: a
\* document without headings gets one chapter and one section that holds
\* every span and whose heading is the title.
generateNodeMap(spans, title) ==
  IF \A i \in 1..Len(spans) : ~detectHeading(spans[i].text).isHeading
    THEN [chapters   |-> (generateChapterId(0) :>
                            [sectionIds |-> <<generateSectionId(0)>>]),
          sections   |-> (generateSectionId(0) :>
                            [paragraphIds |-> [i \in 1..Len(spans) |-> spans[i].id],
                             meta |-> [heading |-> title]]),
          paragraphs |-> [id \in { spans[i].id : i \in 1..Len(spans) } |->
                            [sectionId |-> generateSectionId(0)]]]
    ELSE LET st == NodeMapLoop(spans, 1,
                     [chapters         |-> NoEntries,
                      sections         |-> NoEntries,
                      paragraphs       |-> NoEntries,
                      currentChapterId |-> Absent,
                      currentSectionId |-> Absent,
                      chapterOrder     |-> -1,
                      sectionOrder     |-> -1])
         IN [chapters   |-> st.chapters,
             sections   |-> st.sections,
             paragraphs |-> st.paragraphs]

\* A Markdown document as the build pipeline compiles it: an H1, a
\* paragraph, an H2 and a paragraph, with its node map.
\*   0 "# Ad"   1 "ab cd"   2 "## cd-ab ab"   3 "xab cd"
MarkdownArtifacts ==
  [spans |->
     << Span(SpanId(1), <<"#"," ","A","d">>, 0, <<>>, <<100, 0>>),
        Span(SpanId(2), <<"a","b"," ","c","d">>, 1, << <<"A","d">> >>,
             <<60, 80>>),
        Span(SpanId(3), <<"#","#"," ","c","d","-","a","b"," ","a","b">>, 2,
             << <<"A","d">> >>, <<0, 100>>),
        Span(SpanId(4), <<"x","a","b"," ","c","d">>, 3,
             << <<"A","d">>, <<"c","d","-","a","b"," ","a","b">> >>,
             <<-60, 80>>) >>,
   nodeMap |->
     Present(
       [chapters   |-> ("chap:000001" :>
                          [sectionIds |-> <<"sec:000001", "sec:000002">>]),
        sections   |->
          ("sec:000001" :>
             [paragraphIds |-> <<SpanId(1), SpanId(2)>>,
              meta |-> [heading |-> <<>>]])
          @@
          ("sec:000002" :>
             [paragraphIds |-> <<SpanId(3), SpanId(4)>>,
              meta |-> [heading |->
                          <<"#","#"," ","c","d","-","a","b"," ","a","b">>]]),
        paragraphs |->
          (SpanId(1) :> [sectionId |-> "sec:000001"])
          @@ (SpanId(2) :> [sectionId |-> "sec:000001"])
          @@ (SpanId(3) :> [sectionId |-> "sec:000002"])
          @@ (SpanId(4) :> [sectionId |-> "sec:000002"])])]

\* A plain-text corpus loaded without a node map: ids of another shape, the
\* spans listed out of order, and two spans with the same text.
\*   0 "Ab ab"   1 "ab cd"   2 "ad"   3 "ab cd"
PlainArtifacts ==
  [spans |->
     << Span(OtherId(30), <<"a","d">>, 2, <<>>, <<-60, 80>>),
        Span(OtherId(10), <<"A","b"," ","a","b">>, 0, <<>>, <<100, 0>>),
        Span(OtherId(40), <<"a","b"," ","c","d">>, 3, <<>>, <<0, 100>>),
        Span(OtherId(20), <<"a","b"," ","c","d">>, 1, <<>>, <<60, 80>>) >>,
   nodeMap |-> Absent]

\* A plain-text document as the build pipeline compiles it: no heading, the
\* ids span:<order + 1>, and the node map the pipeline generates for it.
\*   0 "ab cd"   1 "ad"   2 "ab"
CompiledPlainSpans ==
  << Span(SpanId(1), <<"a","b"," ","c","d">>, 0, <<>>, <<100, 0>>),
     Span(SpanId(2), <<"a","d">>, 1, <<>>, <<60, 80>>),
     Span(SpanId(3), <<"a","b">>, 2, <<>>, <<0, 100>>) >>

CompiledPlainArtifacts ==
  [spans   |-> CompiledPlainSpans,
   nodeMap |-> Present(generateNodeMap(CompiledPlainSpans, <<"T">>))]

\* A corpus whose `span:<n>` ids do not follow the order, with a node map
\* that names a section it does not hold for the last span.
\*   0 "ab"   1 "ab ab cd"   2 "ab, cd"
RenumberedArtifacts ==
  [spans |->
     << Span(SpanId(3), <<"a","b">>, 0, <<>>, <<60, 80>>),
        Span(SpanId(1), <<"a","b"," ","a","b"," ","c","d">>, 1, <<>>,
             <<100, 0>>),
        Span(SpanId(2), <<"a","b",","," ","c","d">>, 2, <<>>,
             <<60, 80>>) >>,
   nodeMap |->
     Present(
       [chapters   |-> ("chap:000001" :> [sectionIds |-> <<"sec:000001">>]),
        sections   |->
          ("sec:000001" :>
             [paragraphIds |-> <<SpanId(3), SpanId(1)>>,
              meta |-> [heading |-> <<"T">>]]),
        paragraphs |->
          (SpanId(3) :> [sectionId |-> "sec:000001"])
          @@ (SpanId(1) :> [sectionId |-> "sec:000001"])
          @@ (SpanId(2) :> [sectionId |-> "sec:000009"])])]

\* A corpus with spans that have no embedding.
\*   0 "ad"   1 "ad ab"   2 "cd"
UnembeddedArtifacts ==
  [spans |->
     << Span(OtherId(1), <<"a","d">>, 0, <<>>, <<>>),
        Span(OtherId(2), <<"a","d"," ","a","b">>, 1, <<>>, <<60, 80>>),
        Span(OtherId(3), <<"c","d">>, 2, <<>>, <<>>) >>,
   nodeMap |-> Absent]

Corpora == {MarkdownArtifacts, PlainArtifacts, RenumberedArtifacts}

\* The corpora of the hybrid searches: those, and the one with spans that
\* have no embedding.
HybridCorpora == Corpora \cup {UnembeddedArtifacts}

\* The corpora of the retrievals: those, and the compiled plain-text document.
RetrieveCorpora == Corpora \cup {CompiledPlainArtifacts}

\* ------------------------------------------------------------------------
\* Inputs
\* ------------------------------------------------------------------------

\* The most words or quoted phrases in a query.
MaxQueryItems == 2

\* The largest limit of a search or a retrieve.
MaxLimit == 2

\* The largest before / after / perHitNeighbors.
MaxNeighbors == 2

\* The largest TF cache capacity.
MaxCacheSize == 2

\* The smaller maxTokens of a retrieve; the larger is twice it.
BudgetStep == 5

\* The most warnings on the console.
MaxWarnings == 2

\* The step between the budgets of a prompt, and how many steps.
PromptStep == 12

MaxPromptSteps == 4

\* Defaults of the code.
DefaultMinTokenLen == 4

DefaultDfThreshold == 5

DefaultMaxCandidatesPerToken == 50

\* The words and quoted phrases queries are made of: ab, cd, AD, "ab cd"
\* and "b c".
QueryPieces ==
  { <<"a","b">>, <<"c","d">>, <<"A","D">>,
    <<Quote,"a","b"," ","c","d",Quote>>, <<Quote,"b"," ","c",Quote>> }

\* The queries of exactly n pieces, separated by a space.
RECURSIVE QueriesOf(_)
QueriesOf(n) ==
  IF n = 0 THEN { <<>> }
  ELSE IF n = 1 THEN QueryPieces
  ELSE { q \o <<" ">> \o piece : q \in QueriesOf(n - 1), piece \in QueryPieces }

Queries == UNION { QueriesOf(n) : n \in 0..MaxQueryItems }

\* The queries of the retrievals: one piece fewer.
ShortQueries == UNION { QueriesOf(n) : n \in 0..(MaxQueryItems - 1) }

\* The queries of the specification of the whole Reader: the empty query and
\* the single pieces.
SingleQueries == QueriesOf(0) \cup QueriesOf(1)

Limits == { Absent } \cup { Present(n) : n \in 1..MaxLimit }

FuzzyOptions(minTokenLen, dfThreshold, maxCandidatesPerToken) ==
  Present([enabled               |-> TRUE,
           maxEdits              |-> 1,
           dfThreshold           |-> dfThreshold,
           minTokenLen           |-> minTokenLen,
           maxCandidatesPerToken |-> maxCandidatesPerToken])

\* No fuzzy options; fuzzy matching for tokens of two characters on; and
\* the defaults, under which the two-character tokens are not eligible.
FuzzyChoices ==
  { Absent,
    FuzzyOptions(2, DefaultDfThreshold, DefaultMaxCandidatesPerToken),
    FuzzyOptions(DefaultMinTokenLen, DefaultDfThreshold,
                 DefaultMaxCandidatesPerToken) }

HybridChoices ==
  { DefaultHybridOptions,
    [weightLexical |-> 5,  weightSemantic |-> 5, normalize |-> FALSE],
    [weightLexical |-> 8,  weightSemantic |-> 3, normalize |-> TRUE],
    [weightLexical |-> -1, weightSemantic |-> 5, normalize |-> TRUE] }

\* The weights of the hybrid searches: those above, a sum below 1, and the
\* other ways of being invalid.
HybridWeightChoices ==
  HybridChoices
  \cup { [weightLexical |-> 3,  weightSemantic |-> 3,  normalize |-> TRUE],
         [weightLexical |-> 5,  weightSemantic |-> -1, normalize |-> TRUE],
         [weightLexical |-> -1, weightSemantic |-> -1, normalize |-> FALSE] }

\* The options of the hybrid searches.
HybridSearchOptions ==
  { [limit |-> l, rank |-> "hybrid", fuzzy |-> f, hybrid |-> h] :
      l \in Limits,
      f \in { Absent,
              FuzzyOptions(2, DefaultDfThreshold, DefaultMaxCandidatesPerToken) },
      h \in HybridWeightChoices }

\* The options of a search: the hybrid options vary only when they are read.
SearchOptions ==
  { [limit |-> l, rank |-> r, fuzzy |-> f, hybrid |-> DefaultHybridOptions] :
      l \in Limits, r \in {"none", "tfidf"}, f \in FuzzyChoices }
  \cup
  { [limit |-> l, rank |-> "hybrid", fuzzy |-> f, hybrid |-> h] :
      l \in Limits, f \in FuzzyChoices, h \in HybridChoices }

\* No budget, a budget of one step and a budget of two.
MaxTokensChoices == { Absent, Present(BudgetStep), Present(2 * BudgetStep) }

RetrieveOptions ==
  [limit           : 1..MaxLimit,
   perHitNeighbors : 0..MaxNeighbors,
   expand          : {"neighbors", "section"},
   maxTokens       : MaxTokensChoices,
   rank            : {"none", "tfidf", "hybrid"}]

\* The retrievals whose packs go into a prompt: ranked, without a budget,
\* of up to one pack more than the other retrievals.
PromptRetrieveOptions ==
  [limit           : 1..(MaxLimit + 1),
   perHitNeighbors : 0..MaxNeighbors,
   expand          : {"neighbors", "section"},
   maxTokens       : { Absent },
   rank            : {"tfidf"}]

PromptQuestions == { <<"a","b","?">> }

\* The default headroom, and the headrooms that leave a budget of the base
\* size of a qa prompt plus one to MaxPromptSteps steps.
HeadroomChoices ==
  { Absent }
  \cup { Present([fromMax |-> TRUE,
                  n |-> estimateTokens(getSystemPrompt("qa"))
                          + estimateTokens(BaseUserPromptSuffix)
                          + k * PromptStep]) : k \in 1..MaxPromptSteps }

\* The ids neighbors is asked about: every span's, and one that is unknown.
NeighborIds == DOMAIN spansById \cup { OtherId(0) }

CacheSizes == 0..MaxCacheSize

\* ------------------------------------------------------------------------
\* Artifact loader (load-artifacts.ts loadArtifacts)
\* ------------------------------------------------------------------------

\* A file of the output directory, by what fs.readFile and JSON.parse make
\* of it: readFile fails with an error code (ENOENT when there is no such
\* file, another code when the file is there but cannot be read), or it
\* gives a text, and JSON.parse throws a SyntaxError on the text or gives a
\* JSON value. A JSON value is null or an object; of an object the model
\* keeps the names of the properties whose values are well-formed.
Missing == [code |-> "ENOENT"]

Unreadable == [code |-> "EACCES"]

Unparsable == [code |-> "OK", json |-> Absent]

Holding(value) == [code |-> "OK", json |-> Present(value)]

JsonNull == [type |-> "null"]

JsonObject(keys) == [type |-> "object", keys |-> keys]

\* An object of which the model keeps the values of some properties too.
JsonObjectOf(keys, content) ==
  [type |-> "object", keys |-> keys, content |-> content]

\* The properties of the z.object schemas.
ManifestKeys ==
  {"id", "title", "createdAt", "sourcePath", "sourceHash", "byteLength",
   "spanCount", "version", "format", "detection", "reader", "normalization",
   "schema"}

SpanKeys == {"id", "text", "meta"}

NodeMapKeys == {"book", "chapters", "sections", "paragraphs"}

BuildReportKeys ==
  {"summary", "lengthStats", "thresholds", "warnings", "samples",
   "provenance"}

\* Schema.parse(json) succeeds on an object with every property of the
\* schema; z.object drops the properties the schema does not name.
SchemaAccepts(required, value) ==
  value.type = "object" /\ required \subseteq value.keys

SchemaParse(required, value) == [value EXCEPT !.keys = @ \cap required]

\* The body of one try block: readFile, JSON.parse, Schema.parse. What is
\* thrown is kept by its code property; a SyntaxError and a ZodError have
\* none.
ReadAndParse(file, required) ==
  IF file.code # "OK" THEN [thrown |-> TRUE, code |-> Present(file.code)]
  ELSE IF file.json = Absent THEN [thrown |-> TRUE, code |-> Absent]
  ELSE IF ~SchemaAccepts(required, Get(file.json))
    THEN [thrown |-> TRUE, code |-> Absent]
  ELSE [thrown |-> FALSE, value |-> SchemaParse(required, Get(file.json))]

\* lines.map(...): the first line that does not parse as a span throws.
SpanLinesInvalid(lines) ==
  \E k \in 1..Len(lines) :
    \/ lines[k].json = Absent
    \/ ~SchemaAccepts(SpanKeys, Get(lines[k].json))

\* The try block of spans.jsonl. The text is kept as its lines after
\* trim().split('\n'), which are one or more: an empty file is one line
\* that does not parse.
ReadAndParseSpans(file) ==
  IF file.code # "OK" THEN [thrown |-> TRUE, code |-> Present(file.code)]
  ELSE IF SpanLinesInvalid(file.lines) THEN [thrown |-> TRUE, code |-> Absent]
  ELSE [thrown |-> FALSE,
        value |-> [k \in 1..Len(file.lines) |->
                     SchemaParse(SpanKeys, Get(file.lines[k].json))]]

\* A variant that takes every failure of an optional file for its absence.
OptionalArtifactLenient(name, read) ==
  IF read.thrown
    THEN [error |-> Absent, value |-> Absent]
  ELSE [error |-> Absent, value |-> Present(read.value)]

\* The catch block of an optional file: anything thrown but ENOENT is an
\* error; with ENOENT the variable stays undefined.
OptionalArtifact(name, read) ==
  IF read.thrown /\ read.code # Present("ENOENT")
    THEN [error |-> Present(<<"Failed to load", name>>), value |-> Absent]
  ELSE IF read.thrown THEN [error |-> Absent, value |-> Absent]
  ELSE [error |-> Absent, value |-> Present(read.value)]

\* The catch block of a required file.
RequiredArtifact(name, read) ==
  IF read.thrown /\ read.code = Present("ENOENT")
    THEN [error |-> Present(<<"not found", name>>)]
  ELSE IF read.thrown THEN [error |-> Present(<<"Failed to load", name>>)]
  ELSE [error |-> Absent, value |-> read.value]

\* fs.stat(outputDir) and the isDirectory test.
CheckDirectory(stat) ==
  IF stat = "ENOENT" THEN Present(<<"Directory not found">>)
  ELSE IF stat = "EACCES" THEN Present(<<"EACCES">>)
  ELSE IF stat # "directory" THEN Present(<<"Not a directory">>)
  ELSE Absent

LoadFailed(error) == [error |-> error]

\* loadArtifacts(outputDir): the artifacts, or the first error of the
\* directory, manifest.json, spans.jsonl, nodeMap.json and buildReport.json,
\* in this order.
loadArtifacts(outputDir) ==
  LET manifest    == RequiredArtifact("manifest.json",
                       ReadAndParse(outputDir.manifest, ManifestKeys))
      spans       == RequiredArtifact("spans.jsonl",
                       ReadAndParseSpans(outputDir.spans))
      loadedMap   == OptionalArtifact("nodeMap.json",
                       ReadAndParse(outputDir.nodeMap, NodeMapKeys))
      buildReport == OptionalArtifact("buildReport.json",
                       ReadAndParse(outputDir.buildReport, BuildReportKeys))
  IN  IF IsPresent(CheckDirectory(outputDir.stat))
        THEN LoadFailed(CheckDirectory(outputDir.stat))
      ELSE IF IsPresent(manifest.error) THEN LoadFailed(manifest.error)
      ELSE IF IsPresent(spans.error) THEN LoadFailed(spans.error)
      ELSE IF IsPresent(loadedMap.error) THEN LoadFailed(loadedMap.error)
      ELSE IF IsPresent(buildReport.error) THEN LoadFailed(buildReport.error)
      ELSE [error       |-> Absent,
            manifest    |-> manifest.value,
            spans       |-> spans.value,
            nodeMap     |-> loadedMap.value,
            buildReport |-> buildReport.value]

\* splitIntoParagraphs: the spans of a document's paragraphs, with ids
\* span:000001, span:000002, ... and orders 0, 1, ... (The heading paths and
\* embeddings the pipeline adds are left out: generateNodeMap reads the id
\* and the text.)
splitIntoParagraphs(paragraphs) ==
  [k \in 1..Len(paragraphs) |->
     Span(SpanId(k), paragraphs[k], k - 1, <<>>, <<>>)]

\* The texts a JSON file is tried with: one that does not parse, null, an
\* object short of a property, an object of the schema, and one with a
\* property more.
JsonFiles(required) ==
  { Missing, Unreadable, Unparsable, Holding(JsonNull),
    Holding(JsonObject(required \ { CHOOSE key \in required : TRUE })),
    Holding(JsonObject(required)),
    Holding(JsonObject(required \cup {"extra"})) }

\* The schema versions the build pipeline writes into a manifest.
ExpectedSchemaVersions ==
  [span |-> "1.0.0", manifest |-> "1.0.0", nodeMap |-> "1.0.0"]

\* A manifest with all its properties, of the given schema versions.
ManifestJson(versions) == JsonObjectOf(ManifestKeys, [schema |-> versions])

SchemaVersionChoices ==
  [span : {"1.0.0", "1.4.2", "2.0.0"},
   manifest : {"1.0.0", "1.4.2", "2.0.0"},
   nodeMap : {"1.0.0", "1.4.2", "2.0.0"}]

ManifestFiles ==
  JsonFiles(ManifestKeys)
  \cup { Holding(ManifestJson(versions)) : versions \in SchemaVersionChoices }

MaxSpanLines == 2

\* The paragraphs a document is made of: headings of level 1 to 3, a line
\* that begins with a hash and is no heading, and plain text.
MaxParagraphs == 4

ParagraphTexts ==
  { <<"#", " ", "A">>, <<"#", "#", " ", "b">>, <<"#", "#", "#", " ", "c">>,
    <<"#", "d">>, <<"a", "b">> }

Documents == UNION { [1..n -> ParagraphTexts] : n \in 1..MaxParagraphs }

SpanLines ==
  { Unparsable, Holding(JsonObject({"id", "text"})),
    Holding(JsonObject(SpanKeys)) }

SpanFiles ==
  { Missing, Unreadable }
  \cup { [code |-> "OK", lines |-> lines] :
           lines \in UNION { [1..n -> SpanLines] : n \in 1..MaxSpanLines } }

\* A line of spans.jsonl that holds a span of the given id and order.
SpanLine(id, order) ==
  Holding(JsonObjectOf(SpanKeys, Span(id, <<"a", "b">>, order, <<>>, <<>>)))

SpanRecordLines ==
  { SpanLine(SpanId(n), order) : n \in 1..MaxSpanLines, order \in 0..MaxSpanLines }

\* The output directories a Reader is created from: a manifest, no node
\* map and no build report, and a spans.jsonl of lines that hold spans, or
\* of one line that holds none.
ReaderDirs ==
  [stat        : {"directory"},
   manifest    : { Holding(ManifestJson(ExpectedSchemaVersions)) },
   spans       : { [code |-> "OK", lines |-> lines] :
                     lines \in UNION { [1..n -> SpanRecordLines] :
                                         n \in 1..MaxSpanLines } }
                 \cup { [code |-> "OK", lines |-> <<Unparsable>>] },
   nodeMap     : { Missing },
   buildReport : { Missing }]

\* The spans of loaded artifacts, as the Reader holds them.
LoadedSpans(artifacts) ==
  [k \in 1..Len(artifacts.spans) |-> artifacts.spans[k].content]

\* The output directories loadArtifacts is tried on. Where there is no
\* directory there are no files in it.
OutputDirs ==
  { [stat |-> stat, manifest |-> Missing, spans |-> Missing,
     nodeMap |-> Missing, buildReport |-> Missing] :
      stat \in {"ENOENT", "EACCES", "file"} }
  \cup [stat        : {"directory"},
        manifest    : ManifestFiles,
        spans       : SpanFiles,
        nodeMap     : JsonFiles(NodeMapKeys),
        buildReport : JsonFiles(BuildReportKeys)]

\* ------------------------------------------------------------------------
\* Initial state and actions
\* ------------------------------------------------------------------------

\* new Reader(artifacts), for one of the given corpora.
InitWith(corpora) ==
  \E artifacts \in corpora :
    /\ spansById = SpansByIdOf(artifacts.spans)
    /\ orderedSpans = OrderedSpansOf(artifacts.spans)
    /\ orderToId = OrderToIdOf(OrderedSpansOf(artifacts.spans))
    /\ nodeMap = artifacts.nodeMap
    /\ searchIndex = Absent
    /\ tfidfRanker = Absent
    /\ semanticRanker = Absent
    /\ hybridRanker = Absent
    /\ constructions = [field \in LazyFields |-> 0]
    /\ warnings = <<>>
    /\ recentIds = <<>>
    /\ ret = Absent

Init == InitWith(Corpora)

SetReaderState(rs) ==
  /\ searchIndex' = rs.searchIndex
  /\ tfidfRanker' = rs.tfidfRanker
  /\ semanticRanker' = rs.semanticRanker
  /\ hybridRanker' = rs.hybridRanker
  /\ constructions' = rs.constructions

\* The last n distinct ids of a sequence of uses, the most recent last.
RECURSIVE LastDistinct(_, _)
LastDistinct(uses, n) ==
  IF n <= 0 \/ uses = <<>> THEN <<>>
  ELSE Append(
         LastDistinct(SelectSeq(uses, LAMBDA id : id # uses[Len(uses)]), n - 1),
         uses[Len(uses)])

\* The history of the TF cache: while a cache is enabled, every span id the
\* ranker asks it for (a hit, or a miss followed by an insertion) is a use;
\* of the uses since the cache was enabled, the history keeps the last
\* maxSize distinct ids.
UseTfCache(used) ==
  recentIds' =
    IF IsPresent(tfidfRanker) /\ IsPresent(Get(tfidfRanker).tfCache)
      THEN LastDistinct(recentIds \o used, Get(Get(tfidfRanker).tfCache).maxSize)
      ELSE recentIds

\* A call writes its warnings to the console; the model follows a Reader
\* until MaxWarnings of them have been written.
Warn(warned) ==
  /\ Len(warnings) + Len(warned) <= MaxWarnings
  /\ warnings' = warnings \o warned

\* reader.search(query, options) for a query and options of the given sets.
SearchWith(queries, optionSet) ==
  /\ ret = Absent
  /\ \E query \in queries, options \in optionSet :
       \E call \in { ReaderSearch(ReaderState, query, options) } :
         /\ SetReaderState(call.rs)
         /\ Warn(call.warned)
         /\ UseTfCache(call.used)
         /\ ret' = Present([op      |-> "search",
                            query   |-> query,
                            options |-> options,
                            error   |-> call.error,
                            results |-> call.results])
  /\ UNCHANGED artifactVars

\* reader.retrieve(query, options) for a query and options of the given sets.
RetrieveWith(queries, optionSet) ==
  /\ ret = Absent
  /\ \E query \in queries, options \in optionSet :
       \E call \in { ReaderRetrieve(ReaderState, query, options) } :
         /\ SetReaderState(call.rs)
         /\ Warn(call.warned)
         /\ UseTfCache(call.used)
         /\ ret' = Present([op      |-> "retrieve",
                            query   |-> query,
                            options |-> options,
                            packs   |-> call.packs])
  /\ UNCHANGED artifactVars

RetrieveIn(queries) == RetrieveWith(queries, RetrieveOptions)

SearchIn(queries) == SearchWith(queries, SearchOptions)

\* reader.assemblePrompt({ question, packs, headroomTokens, style }) with the
\* packs a retrieve has just returned.
AssemblePrompt ==
  /\ IsPresent(ret)
  /\ Get(ret).op = "retrieve"
  /\ \E question \in PromptQuestions, headroomTokens \in HeadroomChoices,
        style \in {"qa", "summarize"} :
       ret' = Present([op             |-> "assemblePrompt",
                       question       |-> question,
                       packs          |-> Get(ret).packs,
                       headroomTokens |-> headroomTokens,
                       style          |-> style,
                       assembled      |-> ReaderAssemblePrompt(
                                            question, Get(ret).packs,
                                            headroomTokens, style)])
  /\ UNCHANGED <<artifactVars, searchIndex, tfidfRanker, semanticRanker,
                 hybridRanker, constructions, warnings, recentIds>>

\* reader.neighbors(id, { before, after })
Neighbors ==
  /\ ret = Absent
  /\ \E id \in NeighborIds, before \in 0..MaxNeighbors, after \in 0..MaxNeighbors :
       ret' = Present([op     |-> "neighbors",
                       id     |-> id,
                       before |-> before,
                       after  |-> after,
                       ids    |-> ReaderNeighbors(id, before, after)])
  /\ UNCHANGED <<artifactVars, searchIndex, tfidfRanker, semanticRanker,
                 hybridRanker, constructions, warnings, recentIds>>

\* reader.enableTfCache(cacheSize)
EnableTfCache ==
  /\ ret = Absent
  /\ \E cacheSize \in CacheSizes :
       /\ SetReaderState(ReaderEnableTfCache(ReaderState, cacheSize))
       /\ ret' = Present([op |-> "enableTfCache", cacheSize |-> cacheSize])
  /\ recentIds' = <<>>
  /\ UNCHANGED <<artifactVars, warnings>>

\* loadArtifacts(outputDir), on any of the output directories.
LoadArtifacts ==
  /\ ret = Absent
  /\ \E outputDir \in OutputDirs :
       ret' = Present([op        |-> "loadArtifacts",
                       outputDir |-> outputDir,
                       result    |-> loadArtifacts(outputDir)])
  /\ UNCHANGED <<artifactVars, searchIndex, tfidfRanker, semanticRanker,
                 hybridRanker, constructions, warnings, recentIds>>

\* The pipeline's generateNodeMap(spans, manifest) on the spans of a document.
GenerateNodeMap ==
  /\ ret = Absent
  /\ \E document \in Documents :
       ret' = Present([op      |-> "generateNodeMap",
                       spans   |-> splitIntoParagraphs(document),
                       nodeMap |-> generateNodeMap(
                                     splitIntoParagraphs(document), <<"T">>)])
  /\ UNCHANGED <<artifactVars, searchIndex, tfidfRanker, semanticRanker,
                 hybridRanker, constructions, warnings, recentIds>>

\* new Reader(artifacts) in place of the Reader at hand.
NewReader(spans, loadedMap) ==
  /\ spansById' = SpansByIdOf(spans)
  /\ orderedSpans' = OrderedSpansOf(spans)
  /\ orderToId' = OrderToIdOf(OrderedSpansOf(spans))
  /\ nodeMap' = loadedMap
  /\ SetReaderState(FreshReaderState)
  /\ recentIds' = <<>>

\* createReader(outputDir): loadArtifacts, then new Reader(artifacts); an
\* error of the loader leaves the caller with the Reader it had.
CreateReader ==
  /\ ret = Absent
  /\ \E outputDir \in ReaderDirs :
       \E artifacts \in { loadArtifacts(outputDir) } :
         IF IsPresent(artifacts.error)
           THEN /\ ret' = Present([op        |-> "createReader",
                                   outputDir |-> outputDir,
                                   error     |-> artifacts.error])
                /\ UNCHANGED <<artifactVars, searchIndex, tfidfRanker,
                               semanticRanker, hybridRanker, constructions,
                               recentIds>>
           ELSE /\ ret' = Present([op        |-> "createReader",
                                   outputDir |-> outputDir,
                                   error     |-> Absent,
                                   spans     |-> LoadedSpans(artifacts)])
                /\ NewReader(LoadedSpans(artifacts), Absent)
  /\ UNCHANGED warnings

\* The caller takes the returned value; the Reader is ready for a next call.
Return ==
  /\ ret # Absent
  /\ ret' = Absent
  /\ UNCHANGED <<artifactVars, searchIndex, tfidfRanker, semanticRanker,
                 hybridRanker, constructions, warnings, recentIds>>

Search == SearchIn(SingleQueries)

Retrieve == RetrieveIn(SingleQueries)

\* The whole Reader: any sequence of its operations.
Next ==
  \/ Search
  \/ Retrieve
  \/ Neighbors
  \/ EnableTfCache
  \/ Return

Spec == Init /\ [][Next]_vars

\* Searches alone, over the queries of up to MaxQueryItems pieces.
SearchLong == SearchIn(Queries)

NextSearch ==
  \/ SearchLong
  \/ Return

SpecSearch == Init /\ [][NextSearch]_vars

\* Retrievals alone.
RetrieveShort == RetrieveIn(ShortQueries)

NextRetrieve ==
  \/ RetrieveShort
  \/ Return

InitRetrieve == InitWith(RetrieveCorpora)

SpecRetrieve == InitRetrieve /\ [][NextRetrieve]_vars

\* Hybrid searches, with the TF cache switched on at any time.
SearchHybrid == SearchWith(SingleQueries, HybridSearchOptions)

NextHybrid ==
  \/ SearchHybrid
  \/ EnableTfCache
  \/ Return

InitHybrid == InitWith(HybridCorpora)

SpecHybrid == InitHybrid /\ [][NextHybrid]_vars

\* Retrievals and the prompts assembled from their packs.
RetrieveForPrompt == RetrieveWith(SingleQueries, PromptRetrieveOptions)

NextPrompt ==
  \/ RetrieveForPrompt
  \/ AssemblePrompt
  \/ Return

SpecPrompt == InitRetrieve /\ [][NextPrompt]_vars

\* Loads of output directories.
NextLoad ==
  \/ LoadArtifacts
  \/ Return

SpecLoad == Init /\ [][NextLoad]_vars

\* Readers created from output directories.
NextCreate ==
  \/ CreateReader
  \/ Return

SpecCreate == Init /\ [][NextCreate]_vars

\* Node maps of documents.
NextNodeMap ==
  \/ GenerateNodeMap
  \/ Return

SpecNodeMap == Init /\ [][NextNodeMap]_vars

\* ------------------------------------------------------------------------
\* Properties of search
\* ------------------------------------------------------------------------

\* Whether a call of the given operation has just returned.
Returned(op) == IsPresent(ret) /\ Get(ret).op = op

\* A search returned a result list (it did not throw).
SearchReturned == Returned("search") /\ ~IsPresent(Get(ret).error)

\* Levenshtein distance exactly 1 between two tokens.
RemoveAt(s, i) == SubSeq(s, 1, i - 1) \o SubSeq(s, i + 1, Len(s))

EditDistanceOne(a, b) ==
  \/ /\ Len(a) = Len(b)
     /\ Cardinality({ i \in 1..Len(a) : a[i] # b[i] }) = 1
  \/ /\ Len(a) = Len(b) + 1
     /\ \E i \in 1..Len(a) : RemoveAt(a, i) = b
  \/ /\ Len(b) = Len(a) + 1
     /\ \E i \in 1..Len(b) : RemoveAt(b, i) = a

\* The number of spans of the corpus that contain the token.
SpansContaining(token) ==
  Cardinality({ id \in DOMAIN spansById : token \in SpanTokenSet(spansById[id]) })

\* Fuzzy matching is enabled by the options and the token is eligible for it.
FuzzyAllowed(fuzzy, token) ==
  /\ IsPresent(fuzzy)
  /\ Get(fuzzy).enabled
  /\ Len(token) >= Get(fuzzy).minTokenLen
  /\ SpansContaining(token) < Get(fuzzy).dfThreshold

\* The span holds the token, or (fuzzy allowed) a token one edit away.
SpanMatchesToken(span, token, fuzzy) ==
  \/ token \in SpanTokenSet(span)
  \/ /\ FuzzyAllowed(fuzzy, token)
     /\ \E other \in SpanTokenSet(span) : EditDistanceOne(token, other)

\* C1: every span a search returns contains every token of the query
\* (exactly, or by a token one edit away only when fuzzy matching is enabled
\* and the token is eligible), and its normalized text contains every quoted
\* phrase of the query.
C1_ResultsMatchQuery ==
  SearchReturned =>
    LET call   == Get(ret)
        parsed == parseQuery(call.query)
    IN \A k \in 1..Len(call.results) :
         LET span == spansById[call.results[k].id]
         IN /\ \A t \in 1..Len(parsed.tokens) :
                 SpanMatchesToken(span, parsed.tokens[t], call.options.fuzzy)
            /\ \A f \in 1..Len(parsed.phrases) :
                 Includes(normalizePhrase(span.text),
                          normalizePhrase(parsed.phrases[f]))

\* A search for a token and a phrase returned a span that has the token only
\* by a fuzzy match.
C1_Witness ==
  /\ SearchReturned
  /\ \E k \in 1..Len(Get(ret).results) :
       LET hits == Get(ret).results[k].hits
       IN /\ Len(hits.phrases) > 0
          /\ \E t \in 1..Len(hits.tokens) : hits.tokens[t].fuzzy

\* Position i of a result list may come before position j.
RankedBefore(a, b) ==
  \/ a.score > b.score
  \/ a.score = b.score /\ a.order <= b.order

\* C2: the list search returns is sorted: by score descending with ties
\* broken by order ascending when rank is tfidf or hybrid, by order
\* ascending otherwise.
C2_ResultsSorted ==
  SearchReturned =>
    LET call == Get(ret)
    IN \A i, j \in 1..Len(call.results) :
         i < j =>
           IF IsRanked(call.options)
             THEN RankedBefore(call.results[i], call.results[j])
             ELSE call.results[i].order <= call.results[j].order

\* A ranked search returned two spans of equal score and a span of another
\* score.
C2_Witness ==
  /\ SearchReturned
  /\ IsRanked(Get(ret).options)
  /\ \E i, j, k \in 1..Len(Get(ret).results) :
       /\ i < j
       /\ Get(ret).results[i].score = Get(ret).results[j].score
       /\ Get(ret).results[k].score # Get(ret).results[i].score

\* The same search on the Reader as it is now, without a limit.
UnlimitedResults(call) ==
  ReaderSearch(ReaderState, call.query,
               [call.options EXCEPT !.limit = Absent]).results

\* C3: a ranked search with limit L returns the first L results of the same
\* search without a limit.
C3_LimitAfterRanking ==
  (SearchReturned /\ IsRanked(Get(ret).options)
     /\ IsPresent(Get(ret).options.limit)) =>
    Get(ret).results =
      Take(UnlimitedResults(Get(ret)), Get(Get(ret).options.limit))

\* A ranked search with a limit cut the list, and its first result is not
\* the first candidate the index visits.
C3_Witness ==
  /\ SearchReturned
  /\ IsRanked(Get(ret).options)
  /\ IsPresent(Get(ret).options.limit)
  /\ Len(Get(ret).results) < Len(UnlimitedResults(Get(ret)))
  /\ Len(Get(ret).results) > 0
  /\ Get(ret).results[1].id #
       searchWithHits(Get(searchIndex), Get(ret).query, Absent,
                      Get(ret).options.fuzzy)[1].id

\* ------------------------------------------------------------------------
\* Results do not depend on the lazy state
\* ------------------------------------------------------------------------

\* C4: whatever operations came before, a search or a retrieve returns what
\* it would return as the first call on a freshly constructed Reader over
\* the same artifacts (ids, order, scores, and the error if it throws).
C4_ResultsIndependentOfLazyState ==
  /\ Returned("search") =>
       LET fresh == ReaderSearch(FreshReaderState, Get(ret).query,
                                 Get(ret).options)
       IN /\ Get(ret).results = fresh.results
          /\ Get(ret).error = fresh.error
  /\ Returned("retrieve") =>
       Get(ret).packs =
         ReaderRetrieve(FreshReaderState, Get(ret).query, Get(ret).options).packs

\* A ranked search returned results on a Reader whose TF cache is enabled
\* and holds the TF data of a returned span.
C4_Witness ==
  /\ Returned("search")
  /\ IsRanked(Get(ret).options)
  /\ Len(Get(ret).results) > 1
  /\ IsPresent(tfidfRanker)
  /\ IsPresent(Get(tfidfRanker).tfCache)
  /\ \E k \in 1..Len(Get(ret).results) :
       Get(ret).results[k].id \in Range(LRUKeys(Get(Get(tfidfRanker).tfCache)))

\* ------------------------------------------------------------------------
\* Properties of neighbors
\* ------------------------------------------------------------------------

\* The id of the span at an order.
IdAtOrder(o) == CHOOSE id \in DOMAIN spansById : spansById[id].meta.order = o

\* C5: neighbors returns the ids of the orders max(0, o - before) ..
\* min(N - 1, o + after) in ascending order, o being the target's order; the
\* empty sequence for an unknown id; and the id alone for before = after = 0.
C5_NeighborsWindow ==
  Returned("neighbors") =>
    LET call == Get(ret)
    IN IF call.id \notin DOMAIN spansById THEN call.ids = <<>>
       ELSE LET o  == spansById[call.id].meta.order
                lo == Max2(0, o - call.before)
                hi == Min2(Cardinality(DOMAIN spansById) - 1, o + call.after)
            IN /\ call.ids = [k \in 1..(hi - lo + 1) |-> IdAtOrder(lo + k - 1)]
               /\ (call.before = 0 /\ call.after = 0) => call.ids = <<call.id>>

\* neighbors returned a window clipped at both ends of the document.
C5_Witness ==
  /\ Returned("neighbors")
  /\ Get(ret).id \in DOMAIN spansById
  /\ spansById[Get(ret).id].meta.order - Get(ret).before < 0
  /\ spansById[Get(ret).id].meta.order + Get(ret).after
       > Cardinality(DOMAIN spansById) - 1
  /\ Len(Get(ret).ids) = Cardinality(DOMAIN spansById)

\* ------------------------------------------------------------------------
\* Properties of retrieve
\* ------------------------------------------------------------------------

\* The hits retrieve expands for a returned call, on the Reader as it is.
HitsOf(call) ==
  SelectSeq(ReaderSearch(ReaderState, call.query,
                         RetrieveSearchOptions(call.options)).results,
            LAMBDA r : r.id \in DOMAIN spansById)

\* The sorted merged packs of a returned call, before the budget.
AllPacksOf(call) ==
  IF Len(HitsOf(call)) = 0 THEN <<>> ELSE MergedPacks(HitsOf(call), call.options)

\* The charCount total of the first n packs.
CharsOfFirst(packs, n) ==
  SumSeq([k \in 1..n |-> packs[k].meta.charCount])

\* C6: when maxTokens is given, the charCount total of the returned packs is
\* at most maxTokens.
C6_BudgetRespected ==
  (Returned("retrieve") /\ IsPresent(Get(ret).options.maxTokens)) =>
    CharsOfFirst(Get(ret).packs, Len(Get(ret).packs))
      <= Get(Get(ret).options.maxTokens)

\* A retrieve returned packs, and fewer of them than its limit allows
\* because the next one would exceed maxTokens.
C6_Witness ==
  /\ Returned("retrieve")
  /\ IsPresent(Get(ret).options.maxTokens)
  /\ Len(Get(ret).packs) > 0
  /\ Len(Get(ret).packs) < Get(ret).options.limit
  /\ Len(Get(ret).packs) < Len(AllPacksOf(Get(ret)))

\* The first n packs fit the limit and the budget.
PrefixFits(call, n) ==
  /\ n <= call.options.limit
  /\ IsPresent(call.options.maxTokens) =>
       CharsOfFirst(AllPacksOf(call), n) <= Get(call.options.maxTokens)

\* C7: retrieve returns the longest prefix of the sorted merged packs whose
\* length is at most limit and whose charCount total is at most maxTokens.
C7_LongestFittingPrefix ==
  Returned("retrieve") =>
    LET call == Get(ret)
        n    == Len(call.packs)
    IN /\ n <= Len(AllPacksOf(call))
       /\ call.packs = Take(AllPacksOf(call), n)
       /\ PrefixFits(call, n)
       /\ \A m \in (n + 1)..Len(AllPacksOf(call)) : ~PrefixFits(call, m)

\* A retrieve stopped at a pack that did not fit although a later, smaller
\* pack would have fitted the budget and the limit.
C7_Witness ==
  /\ Returned("retrieve")
  /\ IsPresent(Get(ret).options.maxTokens)
  /\ Len(Get(ret).packs) < Get(ret).options.limit
  /\ \E m \in (Len(Get(ret).packs) + 2)..Len(AllPacksOf(Get(ret))) :
       CharsOfFirst(Get(ret).packs, Len(Get(ret).packs))
         + AllPacksOf(Get(ret))[m].meta.charCount
         <= Get(Get(ret).options.maxTokens)

\* No two positions of a pack list hold the same packId.
DistinctPackIds(packs) ==
  \A i, j \in 1..Len(packs) : i # j => packs[i].packId # packs[j].packId

\* C8: the merged list, and so the list retrieve returns, holds no two packs
\* of the same packId.
C8_UniquePackIds ==
  Returned("retrieve") =>
    /\ DistinctPackIds(AllPacksOf(Get(ret)))
    /\ DistinctPackIds(Get(ret).packs)

\* A retrieve returned packs after two hits had expanded to the same packId.
C8_Witness ==
  /\ Returned("retrieve")
  /\ Len(Get(ret).packs) > 1
  /\ Len(AllPacksOf(Get(ret))) < Len(HitsOf(Get(ret)))

\* C9: no span id is in the paragraphIds of two different packs of one
\* retrieve: hits whose expansions overlap come back as one pack.
C9_NoSpanInTwoPacks ==
  Returned("retrieve") =>
    \A i, j \in 1..Len(Get(ret).packs) :
      i # j =>
        Range(Get(ret).packs[i].paragraphIds)
          \cap Range(Get(ret).packs[j].paragraphIds) = {}

\* C10: retrieve returns its packs sorted by entry.score descending, ties
\* broken by entry.order ascending.
C10_PacksSorted ==
  Returned("retrieve") =>
    \A i, j \in 1..Len(Get(ret).packs) :
      i < j => RankedBefore(Get(ret).packs[i].entry, Get(ret).packs[j].entry)

\* A retrieve returned a pack of higher score before a pack of lower order.
C10_Witness ==
  /\ Returned("retrieve")
  /\ Len(Get(ret).packs) > 1
  /\ Get(ret).packs[1].entry.score > Get(ret).packs[2].entry.score
  /\ Get(ret).packs[1].entry.order > Get(ret).packs[2].entry.order

\* ------------------------------------------------------------------------
\* Section expansion
\* ------------------------------------------------------------------------

\* The span has a parent section that the node map holds.
SectionResolvable(spanId) ==
  /\ IsPresent(nodeMap)
  /\ spanId \in DOMAIN Get(nodeMap).paragraphs
  /\ Get(nodeMap).paragraphs[spanId].sectionId \in DOMAIN Get(nodeMap).sections

\* Two id lists hold the same ids, each as often.
SameIds(xs, ys) ==
  /\ Len(xs) = Len(ys)
  /\ \A id \in Range(xs) \cup Range(ys) :
       Cardinality({ i \in 1..Len(xs) : xs[i] = id })
         = Cardinality({ i \in 1..Len(ys) : ys[i] = id })

\* The pack is the section pack of its entry.
IsSectionPackOf(pack, sectionId) ==
  /\ pack.packId = <<"s", sectionId>>
  /\ pack.scope = [type |-> "section", sectionId |-> sectionId]
  /\ SameIds(pack.paragraphIds, Get(nodeMap).sections[sectionId].paragraphIds)

\* The pack is the neighbors pack of its entry for the given window.
IsNeighborsPackOf(pack, perHitNeighbors) ==
  LET lo == Max2(0, pack.entry.order - perHitNeighbors)
      hi == Min2(Cardinality(DOMAIN spansById) - 1,
                 pack.entry.order + perHitNeighbors)
  IN /\ pack.packId = <<"o", lo, hi>>
     /\ pack.scope = [type |-> "neighbors", range |-> [start |-> lo, end |-> hi]]
     /\ Range(pack.paragraphIds) = { IdAtOrder(o) : o \in lo..hi }
     /\ Len(pack.paragraphIds) = hi - lo + 1

\* C11: with expand = section, a hit whose span has a parent section held by
\* the node map gives the pack s:<sectionId> of scope section with the ids
\* of that whole section; a hit with no resolvable section (no node map,
\* span not in paragraphs, section not in sections) gives the neighbors
\* pack.
C11_SectionOrFallback ==
  (Returned("retrieve") /\ Get(ret).options.expand = "section") =>
    \A k \in 1..Len(Get(ret).packs) :
      LET pack == Get(ret).packs[k]
      IN IF SectionResolvable(pack.entry.spanId)
           THEN IsSectionPackOf(
                  pack, Get(nodeMap).paragraphs[pack.entry.spanId].sectionId)
           ELSE IsNeighborsPackOf(pack, Get(ret).options.perHitNeighbors)

\* A section retrieve over a node map returned a section pack of two spans
\* and, for a hit whose section the node map does not hold, a neighbors pack.
C11_Witness ==
  /\ Returned("retrieve")
  /\ Get(ret).options.expand = "section"
  /\ IsPresent(nodeMap)
  /\ \E i, j \in 1..Len(Get(ret).packs) :
       /\ Get(ret).packs[i].scope.type = "section"
       /\ Len(Get(ret).packs[i].paragraphIds) > 1
       /\ Get(ret).packs[j].scope.type = "neighbors"
       /\ Get(ret).packs[j].entry.spanId \in DOMAIN Get(nodeMap).paragraphs

\* The corpus is a plain-text document the build pipeline compiled: no span
\* is a heading, and the node map is the one the pipeline generates.
CompiledPlainText ==
  /\ \A i \in 1..Len(orderedSpans) : ~detectHeading(orderedSpans[i].text).isHeading
  /\ nodeMap = Present(generateNodeMap(orderedSpans, <<"T">>))

\* C12: for a plain-text corpus, a retrieve with expand = section falls back
\* to neighbors mode: every pack has the scope type neighbors and an
\* o:<start>-<end> pack id.
C12_PlainTextFallsBack ==
  (Returned("retrieve") /\ Get(ret).options.expand = "section"
     /\ CompiledPlainText) =>
    \A k \in 1..Len(Get(ret).packs) :
      /\ Get(ret).packs[k].scope.type = "neighbors"
      /\ Get(ret).packs[k].packId[1] = "o"

\* ------------------------------------------------------------------------
\* Properties of prompt assembly
\* ------------------------------------------------------------------------

\* C13: the citations of assemblePrompt are those of a prefix of the input
\* packs, in input order: the i-th citation has the pack id of the i-th pack
\* and the superscript marker of i, so no pack is accepted after an earlier
\* one was dropped.
C13_CitationsArePrefix ==
  Returned("assemblePrompt") =>
    LET call == Get(ret)
    IN /\ Len(call.assembled.citations) <= Len(call.packs)
       /\ \A i \in 1..Len(call.assembled.citations) :
            /\ call.assembled.citations[i].packId = call.packs[i].packId
            /\ call.assembled.citations[i].marker = toSuperscriptMarker(i)

\* A prompt dropped the first of two packs for the budget, and cites
\* nothing, although the block of the second pack alone would have fitted.
C13_Witness ==
  /\ Returned("assemblePrompt")
  /\ Len(Get(ret).packs) = 2
  /\ Get(ret).assembled.citations = <<>>
  /\ ~ExceedsBudget(
        estimateTokens(getSystemPrompt(Get(ret).style))
          + estimateTokens(Get(ret).question)
          + estimateTokens(BaseUserPromptSuffix)
          + estimateTokens(formatContextBlock(
                             Get(ret).packs[2], toSuperscriptMarker(2),
                             ManifestId)),
        BudgetLimitOf(Get(ret).headroomTokens))

\* ------------------------------------------------------------------------
\* Properties of hybrid ranking
\* ------------------------------------------------------------------------

\* C14: a search with rank = hybrid fails with InvalidArgument when a weight
\* is negative or the weights sum to more than 1 (ten tenths), and does not
\* fail when both are non-negative and sum to at most 1, whether or not the
\* query matches a span.
C14_InvalidWeightsRejected ==
  (Returned("search") /\ Get(ret).options.rank = "hybrid") =>
    LET weights == Get(ret).options.hybrid
    IN IF \/ weights.weightLexical < 0
          \/ weights.weightSemantic < 0
          \/ weights.weightLexical + weights.weightSemantic > WeightScale
         THEN Get(ret).error = Present("InvalidArgument")
         ELSE Get(ret).error = Absent

\* A hybrid search whose weights are not negative but sum to more than 1
\* failed, although its query matches no span.
C14_Witness ==
  /\ Returned("search")
  /\ Get(ret).options.rank = "hybrid"
  /\ Get(ret).options.fuzzy = Absent
  /\ Get(ret).options.hybrid.weightLexical >= 0
  /\ Get(ret).options.hybrid.weightSemantic >= 0
  /\ Get(ret).error = Present("InvalidArgument")
  /\ Get(ret).query = <<"A","D">>
  /\ SpansContaining(<<"a","d">>) = 0

\* C15: a search rejected with InvalidArgument changes nothing of the
\* Reader: the call constructs no lazy index or ranker and adds no TF-cache
\* entry.
C15_RejectedSearchChangesNothing ==
  [][(/\ ret = Absent
      /\ IsPresent(ret')
      /\ Get(ret').op = "search"
      /\ Get(ret').error = Present("InvalidArgument"))
       => UNCHANGED <<searchIndex, tfidfRanker, semanticRanker, hybridRanker>>]_vars

\* C16: over the hybrid searches of one Reader, a span without an embedding
\* never makes a search fail, and the warning that its embedding is missing
\* is written at most once.
C16_WarnedOncePerSpan ==
  /\ \A id \in Range(warnings) :
       Cardinality({ i \in 1..Len(warnings) : warnings[i] = id }) <= 1
  /\ (Returned("search") /\ Get(ret).options.rank = "hybrid"
        /\ ~WeightsInvalid(Get(ret).options.hybrid)) =>
       Get(ret).error = Absent

\* ------------------------------------------------------------------------
\* Properties of the TF cache
\* ------------------------------------------------------------------------

\* The TF cache, when one is enabled.
TfCacheEnabled == IsPresent(tfidfRanker) /\ IsPresent(Get(tfidfRanker).tfCache)

TfCache == Get(Get(tfidfRanker).tfCache)

\* C17: after any lookups and insertions since the TF cache was enabled with
\* capacity C, the keys of the cache are exactly the at most C most recently
\* used span ids, so the size never exceeds C.
C17_CacheHoldsMostRecentlyUsed ==
  TfCacheEnabled =>
    /\ Len(TfCache.entries) <= TfCache.maxSize
    /\ Range(LRUKeys(TfCache)) = Range(recentIds)
    /\ Len(LRUKeys(TfCache)) = Len(recentIds)

\* A ranked search over a cache of capacity 2 has just asked for the TF
\* data of three spans or more: the cache is full and has evicted.
C17_Witness ==
  /\ TfCacheEnabled
  /\ TfCache.maxSize = 2
  /\ Len(TfCache.entries) = 2
  /\ Returned("search")
  /\ IsRanked(Get(ret).options)
  /\ Len(Get(ret).results) >= 3

\* ------------------------------------------------------------------------
\* Properties of the lazy construction
\* ------------------------------------------------------------------------

\* C18: over any calls of search, retrieve and enableTfCache on one Reader,
\* the lexical index, the TF-IDF ranker, the semantic ranker and the hybrid
\* ranker are each constructed at most once; a field holds an instance
\* exactly when its constructor has run, so later calls use that instance.
C18_ConstructedAtMostOnce ==
  /\ constructions.searchIndex = (IF IsPresent(searchIndex) THEN 1 ELSE 0)
  /\ constructions.tfidfRanker = (IF IsPresent(tfidfRanker) THEN 1 ELSE 0)
  /\ constructions.semanticRanker = (IF IsPresent(semanticRanker) THEN 1 ELSE 0)
  /\ constructions.hybridRanker = (IF IsPresent(hybridRanker) THEN 1 ELSE 0)

\* A search has returned on a Reader whose four lazy fields were all set
\* before: enableTfCache gave it a cache that an entry has since entered.
C18_Witness ==
  /\ Returned("search")
  /\ Get(ret).options.rank = "hybrid"
  /\ IsPresent(hybridRanker)
  /\ TfCacheEnabled
  /\ Len(TfCache.entries) > 0

\* ------------------------------------------------------------------------
\* Properties of searches that match nothing
\* ------------------------------------------------------------------------

\* The query is empty, or one of its words occurs in no span.
MatchesNothing(query) ==
  \/ parseQuery(query).tokens = <<>> /\ parseQuery(query).phrases = <<>>
  \/ \E token \in Range(parseQuery(query).tokens) : SpansContaining(token) = 0

\* A search without fuzzy matching whose query is empty or has a word that
\* occurs in no span has just returned.
NothingToFind ==
  /\ Returned("search")
  /\ Get(ret).options.fuzzy = Absent
  /\ MatchesNothing(Get(ret).query)

\* C19 as stated: without fuzzy matching, a search for an empty query or a
\* query with a word that occurs in no span returns the empty sequence and
\* raises no error, under every rank mode.
C19_NothingFoundNoError ==
  NothingToFind => Get(ret).results = <<>> /\ Get(ret).error = Absent

\* C19 as amended: such a search returns the empty sequence under every rank
\* mode, and the only error it raises is InvalidArgument, under rank hybrid
\* with a negative weight or weights that sum to more than 1.
C19_NothingFoundNoErrorButWeights ==
  NothingToFind =>
    /\ Get(ret).results = <<>>
    /\ IF Get(ret).options.rank = "hybrid"
            /\ (\/ Get(ret).options.hybrid.weightLexical < 0
                \/ Get(ret).options.hybrid.weightSemantic < 0
                \/ Get(ret).options.hybrid.weightLexical
                     + Get(ret).options.hybrid.weightSemantic > WeightScale)
         THEN Get(ret).error = Present("InvalidArgument")
         ELSE Get(ret).error = Absent

\* A ranked search without fuzzy matching returned nothing and no error for
\* a query of two words of which one occurs in a span and the other in none.
C19_Witness ==
  /\ NothingToFind
  /\ IsRanked(Get(ret).options)
  /\ Get(ret).error = Absent
  /\ \E known, unknown \in Range(parseQuery(Get(ret).query).tokens) :
       SpansContaining(known) > 0 /\ SpansContaining(unknown) = 0

\* ------------------------------------------------------------------------
\* Properties of the artifact loader
\* ------------------------------------------------------------------------

OptionalFiles == {"nodeMap", "buildReport"}

OptionalKeys(name) == IF name = "nodeMap" THEN NodeMapKeys ELSE BuildReportKeys

\* The file is there and holds a JSON object of its schema.
ValidJson(file, required) ==
  /\ file.code = "OK"
  /\ IsPresent(file.json)
  /\ SchemaAccepts(required, Get(file.json))

\* The file is there, and its text does not parse or is not of its schema.
PresentButInvalid(file, required) ==
  file.code = "OK" /\ ~ValidJson(file, required)

ValidSpans(file) ==
  /\ file.code = "OK"
  /\ \A k \in 1..Len(file.lines) : ValidJson(file.lines[k], SpanKeys)

\* The directory and the two required files are in order.
RequiredInOrder(outputDir) ==
  /\ outputDir.stat = "directory"
  /\ ValidJson(outputDir.manifest, ManifestKeys)
  /\ ValidSpans(outputDir.spans)

\* C20: a missing nodeMap.json or buildReport.json never makes loadArtifacts
\* fail: when the directory and the required files are in order and each
\* optional file is either missing or valid, the load succeeds, and the
\* field of a missing file is absent in the result. A nodeMap.json or
\* buildReport.json that is present but unparsable or schema-invalid always
\* makes loadArtifacts fail.
C20_OptionalArtifacts ==
  Returned("loadArtifacts") =>
    LET outputDir == Get(ret).outputDir
        result    == Get(ret).result
    IN  /\ ( /\ RequiredInOrder(outputDir)
             /\ \A name \in OptionalFiles :
                  \/ outputDir[name] = Missing
                  \/ ValidJson(outputDir[name], OptionalKeys(name)) )
           => /\ result.error = Absent
              /\ \A name \in OptionalFiles :
                   result[name] = Absent <=> outputDir[name] = Missing
        /\ \A name \in OptionalFiles :
             PresentButInvalid(outputDir[name], OptionalKeys(name))
               => IsPresent(result.error)

\* A load that succeeded without a nodeMap.json, with a buildReport.json.
C20_Witness ==
  /\ Returned("loadArtifacts")
  /\ Get(ret).outputDir.nodeMap = Missing
  /\ ValidJson(Get(ret).outputDir.buildReport, BuildReportKeys)
  /\ Get(ret).result.error = Absent
  /\ Get(ret).result.nodeMap = Absent
  /\ IsPresent(Get(ret).result.buildReport)

\* The major component of a semantic version string.
MajorOf(version) ==
  CASE version = "1.0.0" -> 1
    [] version = "1.4.2" -> 1
    [] version = "2.0.0" -> 2

\* The manifest file holds a manifest whose schema versions the model keeps.
VersionedManifest(file) ==
  /\ ValidJson(file, ManifestKeys)
  /\ "content" \in DOMAIN Get(file.json)

SameMajors(versions) ==
  \A name \in DOMAIN versions :
    MajorOf(versions[name]) = MajorOf(ExpectedSchemaVersions[name])

\* Everything but the schema versions is in order for a load to succeed.
LoadableButVersions(outputDir) ==
  /\ RequiredInOrder(outputDir)
  /\ VersionedManifest(outputDir.manifest)
  /\ \A name \in OptionalFiles :
       \/ outputDir[name] = Missing
       \/ ValidJson(outputDir[name], OptionalKeys(name))

\* C21: loadArtifacts accepts an artifact set whose manifest schema versions
\* have the same major component as the versions the loader expects,
\* whatever the minor and patch components, and rejects any artifact set in
\* which a schema version has a different major component.
C21_SchemaMajorChecked ==
  ( /\ Returned("loadArtifacts")
    /\ LoadableButVersions(Get(ret).outputDir) )
  => ( Get(ret).result.error = Absent
         <=> SameMajors(Get(Get(ret).outputDir.manifest.json).content.schema) )

\* ------------------------------------------------------------------------
\* Properties of the node map
\* ------------------------------------------------------------------------

\* The places (section, position) at which a node map lists a span id.
PlacesOf(map, id) ==
  { <<sectionId, k>> \in
      UNION { {sectionId} \X DOMAIN map.sections[sectionId].paragraphIds :
                sectionId \in DOMAIN map.sections } :
      map.sections[sectionId].paragraphIds[k] = id }

\* C22: in the node map the pipeline generates for any sequence of heading
\* and paragraph spans, each span id is listed in exactly one section's
\* paragraphIds, exactly once, and has one entry in paragraphs, which names
\* that section; the sections list no other ids; and every section id a
\* chapter lists exists in sections.
C22_NodeMapPartitionsSpans ==
  Returned("generateNodeMap") =>
    LET map   == Get(ret).nodeMap
        spans == Get(ret).spans
        ids   == { spans[i].id : i \in 1..Len(spans) }
    IN  /\ \A id \in ids :
             /\ Cardinality(PlacesOf(map, id)) = 1
             /\ id \in DOMAIN map.paragraphs
             /\ \A place \in PlacesOf(map, id) :
                  map.paragraphs[id].sectionId = place[1]
        /\ DOMAIN map.paragraphs = ids
        /\ \A sectionId \in DOMAIN map.sections :
             \A k \in DOMAIN map.sections[sectionId].paragraphIds :
               map.sections[sectionId].paragraphIds[k] \in ids
        /\ \A chapterId \in DOMAIN map.chapters :
             \A k \in DOMAIN map.chapters[chapterId].sectionIds :
               map.chapters[chapterId].sectionIds[k] \in DOMAIN map.sections

\* The node map of a document with a paragraph before its first heading, a
\* chapter heading and a section heading: three sections, two chapters.
C22_Witness ==
  /\ Returned("generateNodeMap")
  /\ Len(Get(ret).spans) >= 3
  /\ ~detectHeading(Get(ret).spans[1].text).isHeading
  /\ \E i, j \in 1..Len(Get(ret).spans) :
       /\ detectHeading(Get(ret).spans[i].text).level = 1
       /\ detectHeading(Get(ret).spans[j].text).level = 2
  /\ Cardinality(DOMAIN Get(ret).nodeMap.chapters) >= 2
  /\ Cardinality(DOMAIN Get(ret).nodeMap.sections) >= 3

\* ------------------------------------------------------------------------
\* Properties of the Reader's construction
\* ------------------------------------------------------------------------

\* C23: for every corpus a Reader is constructed from, the order values of
\* its spans are a permutation of 0..N-1, the span ids are as many as the
\* spans, and orderedSpans[s.order].id = s.id for every span s.
C23_OrderedSpansByOrder ==
  ( /\ Returned("createReader")
    /\ Get(ret).error = Absent )
  => LET spans == Get(ret).spans
     IN  /\ { spans[k].meta.order : k \in 1..Len(spans) } = 0..(Len(spans) - 1)
         /\ Cardinality({ spans[k].id : k \in 1..Len(spans) }) = Len(spans)
         /\ \A k \in 1..Len(spans) :
              /\ spans[k].meta.order + 1 \in DOMAIN orderedSpans
              /\ orderedSpans[spans[k].meta.order + 1].id = spans[k].id

\* ------------------------------------------------------------------------
\* Properties of merged packs
\* ------------------------------------------------------------------------

\* C24: every pack retrieve returns lists its paragraphIds in ascending
\* document order (the order values of the spans), no id twice, whatever the
\* span id strings are.
C24_ParagraphIdsInDocumentOrder ==
  Returned("retrieve") =>
    \A p \in 1..Len(Get(ret).packs) :
      LET ids == Get(ret).packs[p].paragraphIds
      IN  \A i, j \in 1..Len(ids) :
            i < j =>
              /\ ids[i] # ids[j]
              /\ ( ids[i] \in DOMAIN spansById /\ ids[j] \in DOMAIN spansById )
                   => spansById[ids[i]].meta.order < spansById[ids[j]].meta.order

\* The expansions of the hits of a returned retrieve, on the Reader as it is.
ExpansionsOf(call) ==
  ExpandAll(HitsOf(call), call.options, buildParagraphToSectionIndex)

\* The pack carries the best of the expansions that share its packId: no
\* other has a higher score, or the same score and a lower order; and the
\* scope and heading path are those of the expansion of the pack's entry.
CarriesBestOf(pack, expansions) ==
  /\ \E k \in 1..Len(expansions) :
       /\ expansions[k].packId = pack.packId
       /\ expansions[k].entry = pack.entry
       /\ expansions[k].scope = pack.scope
       /\ expansions[k].headingPath = pack.meta.headingPath
  /\ \A k \in 1..Len(expansions) :
       expansions[k].packId = pack.packId =>
         \/ expansions[k].entry.score < pack.entry.score
         \/ /\ expansions[k].entry.score = pack.entry.score
            /\ expansions[k].entry.order >= pack.entry.order

AllCarryBestOf(packs, expansions) ==
  \A p \in 1..Len(packs) : CarriesBestOf(packs[p], expansions)

\* C25: when several hits expand to the same packId, the entry of the merged
\* pack is the hit of the highest score, ties broken by the lowest order,
\* and the pack's scope and headingPath are those of that hit's expansion.
C25_MergedPackCarriesBestHit ==
  Returned("retrieve") => AllCarryBestOf(Get(ret).packs, ExpansionsOf(Get(ret)))

SharesPackOf(pack, expansions) ==
  \E i, j \in 1..Len(expansions) :
    /\ i # j
    /\ expansions[i].packId = pack.packId
    /\ expansions[j].packId = pack.packId
    /\ expansions[i].entry.score # expansions[j].entry.score

\* A retrieve returned a pack that two hits of different scores expanded to.
C25_Witness ==
  /\ Returned("retrieve")
  /\ Len(Get(ret).packs) > 0
  /\ SharesPackOf(Get(ret).packs[1], ExpansionsOf(Get(ret)))

\* ------------------------------------------------------------------------
\* Properties of the user prompt
\* ------------------------------------------------------------------------

\* The context blocks of the first n packs of a returned assemblePrompt.
FirstBlocks(call, n) ==
  [k \in 1..n |->
     formatContextBlock(call.packs[k], toSuperscriptMarker(k), ManifestId)]

\* The user prompt with a reference line that names the first and the n-th
\* marker.
UserPromptFirstToLast(call, n) ==
  call.question
  \o <<"\n","\n","Y","o","u"," ","m","a","y"," ",
       "r","e","f","e","r","e","n","c","e"," ">>
  \o toSuperscriptMarker(1) \o <<"...">> \o toSuperscriptMarker(n)
  \o <<".","\n","\n">>
  \o JoinWith(FirstBlocks(call, n), <<"\n","\n">>)

\* C26: when n >= 2 packs are accepted, prompt.user is the question, a blank
\* line, the one reference line that names the first and the n-th marker
\* joined by an ellipsis, a blank line, and the n context blocks separated by
\* blank lines; when no pack is accepted, prompt.user is the question and
\* citations is empty.
C26_UserPromptLayout ==
  Returned("assemblePrompt") =>
    LET call == Get(ret)
        n    == Len(call.assembled.citations)
    IN  /\ n >= 2 => call.assembled.prompt.user = UserPromptFirstToLast(call, n)
        /\ ( n = 0 \/ call.assembled.prompt.user = call.question )
             => /\ call.assembled.prompt.user = call.question
                /\ call.assembled.citations = <<>>

\* ------------------------------------------------------------------------
\* Properties of enabling the TF cache
\* ------------------------------------------------------------------------

\* No span id is the key of two entries of the cache.
DistinctCacheKeys(cache) ==
  \A i, j \in 1..Len(LRUKeys(cache)) :
    i # j => LRUKeys(cache)[i] # LRUKeys(cache)[j]

\* C27: the capacity of the TF cache is fixed when the cache is first
\* enabled: no later call, a second enableTfCache included, changes it, and
\* the cache never holds two entries for one span id.
C27_CapacityFixedAtFirstEnable ==
  [][ TfCacheEnabled =>
        /\ TfCacheEnabled'
        /\ TfCache'.maxSize = TfCache.maxSize
        /\ DistinctCacheKeys(TfCache') ]_vars

\* ------------------------------------------------------------------------
\* Properties of the phrase boost
\* ------------------------------------------------------------------------

\* The number of distinct phrases among the phrase hits of a result.
DistinctPhrases(result) ==
  Cardinality({ result.hits.phrases[p].phrase :
                  p \in 1..Len(result.hits.phrases) })

\* The TF-IDF score of a result with 0.1 per distinct phrase, at most 0.3.
ScoreWithDistinctBoost(li, result, queryTokens) ==
  TfIdfScore(li, computeTF(SpanOf(li, result.id)), queryTokens)
    + Min2((3 * ScoreScale) \div 10,
           DistinctPhrases(result) * (ScoreScale \div 10))

\* rankWithHits keeps the results in their input order.
KeepsInputOrder(results, scored) ==
  /\ Len(scored) = Len(results)
  /\ \A k \in 1..Len(results) : scored[k].id = results[k].id

\* C28: TF-IDF rankWithHits adds to the score of each result the boost
\* min(0.3, phraseBoost * k), k the number of distinct query phrases that
\* matched the span (a phrase written twice counts once), and returns the
\* results in their input order.
C28_BoostPerDistinctPhrase ==
  ( /\ SearchReturned
    /\ Get(ret).options.rank = "tfidf" )
  => /\ \A k \in 1..Len(Get(ret).results) :
          Get(ret).results[k].score =
            ScoreWithDistinctBoost(Get(searchIndex), Get(ret).results[k],
                                   tokenize(Get(ret).query))
     /\ KeepsInputOrder(
          searchWithHits(Get(searchIndex), Get(ret).query, Absent,
                         Get(ret).options.fuzzy),
          TfidfRankWithHits(
            Get(searchIndex), TFIDFRankerNew,
            searchWithHits(Get(searchIndex), Get(ret).query, Absent,
                           Get(ret).options.fuzzy),
            tokenize(Get(ret).query), ScoreScale \div 10).scored)

\* ------------------------------------------------------------------------
\* Properties of the limit without ranking
\* ------------------------------------------------------------------------

\* C29: with rank none, a search with limit L returns the first L results of
\* the same search without a limit, which are the L matching spans of the
\* lowest order, for every query and every fuzzy setting.
C29_LimitTakesLowestOrders ==
  ( /\ SearchReturned
    /\ ~IsRanked(Get(ret).options)
    /\ IsPresent(Get(ret).options.limit) )
  => Get(ret).results =
       Take(UnlimitedResults(Get(ret)), Get(Get(ret).options.limit))

\* ------------------------------------------------------------------------
\* Properties of phrase-only queries
\* ------------------------------------------------------------------------

\* The query has quoted phrases and no words outside them.
PhrasesOnly(query) ==
  /\ Len(parseQuery(query).tokens) = 0
  /\ Len(parseQuery(query).phrases) > 0

\* C30: a query made only of quoted phrases returns (when no limit cuts the
\* list) every span whose normalized text contains every normalized phrase:
\* the first-word prefilter excludes no span for which containsAllPhrases
\* holds.
C30_PhraseOnlyFindsAllSpans ==
  ( /\ SearchReturned
    /\ PhrasesOnly(Get(ret).query)
    /\ Get(ret).options.limit = Absent )
  => \A id \in DOMAIN spansById :
       containsAllPhrases(spansById[id].text, parseQuery(Get(ret).query).phrases)
         => \E k \in 1..Len(Get(ret).results) : Get(ret).results[k].id = id

====
